---- MODULE Spec2Model ----
(***************************************************************************)
(* SafeSpace: the sandbox controller (safespace/environment.py), the       *)
(* facet managers it drives and the State Store (safespace/state_db.py).   *)
(*                                                                         *)
(* One SafeEnvironment object is live at a time (env); a new session       *)
(* replaces it (New, LoadFromState).  The filesystem (fs), the State       *)
(* Store table (db) and the wall clock (now) outlive the sessions.  A      *)
(* behaviour is the use of the tool under one command line (args): the     *)
(* mode of the sandbox and the facets asked for.                           *)
(***************************************************************************)
EXTENDS Integers, Sequences, FiniteSets, TLC

VARIABLES
    args,   \* the command line: constructor arguments and facets asked for
    env,    \* the live SafeEnvironment object (its fields)
    live,   \* "new": constructed; "ready": created or loaded; "saved"; "cleaned"
    fs,     \* the set of paths that exist
    db,     \* the environments table, rows in insertion (rowid) order
    now,    \* the wall clock (datetime.utcnow())
    call,   \* the last call made on the controller and its outcome
    env_file, \* the lines of <root>/.env, in the order written
    artifact_index, \* ContentAddressableCache.artifact_index, in insertion order
    index_file,     \* <cache>/artifacts.json as it is on disk
    content,        \* <cache>/content: file name (the key) -> the bytes in it
    metadata_files, \* <cache>/metadata: the keys that have a <key>.json
    ctime,          \* time.time() as the cache reads it
    cret,           \* the last call made on the cache and what it returned
    threads,        \* the pool threads of cache_directory: where each is in put
    dl_files,       \* the downloader's files: "temp", "out" -> the bytes in them
    netiso,         \* the NetworkIsolation object: its Conditions record
    host,           \* the kernel's side: the root qdisc of veth1 in the namespace
    ncall,          \* the last call made on the NetworkIsolation object
    topo,           \* the kernel's side: namespace, veth pair, NAT rules, route
    tcall,          \* the last call that set up or released the topology
    mgr,            \* the VM and container managers, their files and runtime
    mcall,          \* the last call made on a manager
    resmgr,         \* the ResourceManager object and the host's clock and cpus
    rcall,          \* the last call made on the ResourceManager
    evicted,        \* the index entries the last put removed to make room
    cache_dir       \* the files under the ResourceManager's cache directory

\* The controller's own state, and what the other components add to it.
controller == <<args, env, live, fs, db, now, call>>
envFileVars == <<env_file>>
cacheVars == <<artifact_index, index_file, content, metadata_files, ctime, cret>>
threadVars == <<threads>>
downloadVars == <<dl_files>>
networkVars == <<netiso, host, ncall>>
topologyVars == <<topo, tcall>>
managerVars == <<mgr, mcall>>
resourceVars == <<resmgr, rcall>>
evictionVars == <<evicted>>
cleanupVars == <<cache_dir>>
outside == <<envFileVars, cacheVars, threadVars, downloadVars, networkVars,
             topologyVars, managerVars, resourceVars,
             evictionVars, cleanupVars>>
besidesEnvFile == <<cacheVars, threadVars, downloadVars, networkVars, topologyVars,
                    managerVars, resourceVars,
                    evictionVars, cleanupVars>>
besidesCache == <<controller, envFileVars, threadVars, downloadVars, networkVars,
                  topologyVars, managerVars, resourceVars,
                  evictionVars, cleanupVars>>
besidesThreads == <<controller, envFileVars, ctime, cret, downloadVars, networkVars,
                    topologyVars, managerVars, resourceVars,
                    evictionVars, cleanupVars>>
besidesDownload == <<controller, envFileVars, threadVars, networkVars, topologyVars,
                     managerVars, resourceVars,
                     evictionVars, cleanupVars>>
besidesNetwork == <<controller, envFileVars, cacheVars, threadVars, downloadVars,
                    topologyVars, managerVars, resourceVars,
                    evictionVars, cleanupVars>>
besidesStore == <<args, env, live, fs, call, envFileVars, cacheVars, threadVars,
                  downloadVars, networkVars, topologyVars, managerVars, resourceVars,
                  evictionVars, cleanupVars>>
besidesTopology == <<args, live, now, call, envFileVars, cacheVars, threadVars,
                     downloadVars, networkVars, managerVars, resourceVars,
                     evictionVars, cleanupVars>>
besidesManagers == <<controller, envFileVars, cacheVars, threadVars, downloadVars,
                     networkVars, topologyVars, resourceVars,
                     evictionVars, cleanupVars>>
besidesEviction == <<controller, envFileVars, threadVars, downloadVars, networkVars,
                     topologyVars, managerVars, resourceVars, cleanupVars>>
besidesCleanup == <<controller, envFileVars, cacheVars, threadVars, downloadVars,
                    networkVars, topologyVars, managerVars, evictionVars>>
besidesResources == <<controller, envFileVars, cacheVars, threadVars, downloadVars,
                      networkVars, topologyVars, managerVars,
                      evictionVars, cleanupVars>>

vars == <<args, env, live, fs, db, now, call, env_file,
          artifact_index, index_file, content, metadata_files, ctime, cret,
          threads, dl_files, netiso, host, ncall, topo, tcall, mgr, mcall,
          resmgr, rcall, evicted, cache_dir>>

(***************************************************************************)
(* Bounds                                                                  *)
(***************************************************************************)
\* The clock stops at MaxClock: no call that reads the time starts after it.
MaxClock == 3

\* The sandbox identifiers (uuid4 strings) and friendly names in use.
EnvIds == {"e1"}
EnvNames == {"alpha"}

\* Python's None.
None == "None"

(***************************************************************************)
(* Paths: a pathlib.Path is the sequence of its components.                *)
(***************************************************************************)
TempDir == <<"tmp">>

\* The root_dir argument given to the constructor for a sandbox identifier.
RootOf(id) == TempDir \o <<"safe_env_" \o id>>

Parent(p) == SubSeq(p, 1, Len(p) - 1)

IsUnder(q, p) == Len(q) >= Len(p) /\ SubSeq(q, 1, Len(p)) = p

\* str(path)
RECURSIVE PathStr(_)
PathStr(p) == IF p = <<>> THEN "" ELSE "/" \o Head(p) \o PathStr(Tail(p))

KnownRoots == {RootOf(i) : i \in EnvIds}

\* Path(text)
PathOf(s) == CHOOSE p \in KnownRoots : PathStr(p) = s

\* datetime.utcnow().strftime(...) / .isoformat()
IsoTime(t) == "T" \o ToString(t)

(***************************************************************************)
(* utils.create_secure_directory and shutil.rmtree on the path set.        *)
(***************************************************************************)
RECURSIVE Ancestors(_)
Ancestors(p) == IF Len(p) <= 1 THEN {p} ELSE {p} \cup Ancestors(Parent(p))

create_secure_directory(files, p) == files \cup Ancestors(p)

rmtree(files, p) == {q \in files : ~IsUnder(q, p)}

SubDirs == {"cache", "logs", "data", "tmp"}

(***************************************************************************)
(* SafeEnvironment.__init__                                                *)
(***************************************************************************)
SafeEnvironment(root_dir, internal_mode, sudo_password, persistent, env_id, env_name) ==
    [ internal_mode              |-> internal_mode,
      sudo_password              |-> sudo_password,
      env_vars                   |-> {},
      network_isolation          |-> FALSE,
      network_enabled            |-> FALSE,
      vm_manager                 |-> FALSE,
      vm_enabled                 |-> FALSE,
      container_manager          |-> FALSE,
      container_enabled          |-> FALSE,
      test_environment           |-> FALSE,
      comprehensive_test_enabled |-> FALSE,
      enhanced_dev_enabled       |-> FALSE,
      persistent                 |-> persistent,
      env_id                     |-> env_id,
      env_name                   |-> env_name,
      root_dir                   |-> root_dir ]

FacetFlags == {"network_enabled", "vm_enabled", "container_enabled",
               "comprehensive_test_enabled", "enhanced_dev_enabled"}

\* The flags of e that are set.
FlagsSet(e) == {f \in FacetFlags : e[f]}

(***************************************************************************)
(* JSON: json.dumps / json.loads of the state and metadata blobs.          *)
(* Booleans become the literals true / false; strings stay strings.       *)
(***************************************************************************)
JsonBool(b) == IF b THEN "true" ELSE "false"

JsonParseBool(t) == t = "true"

json_dumps_state(state) ==
    [ env_vars                   |-> state.env_vars,
      network_enabled            |-> JsonBool(state.network_enabled),
      vm_enabled                 |-> JsonBool(state.vm_enabled),
      container_enabled          |-> JsonBool(state.container_enabled),
      comprehensive_test_enabled |-> JsonBool(state.comprehensive_test_enabled),
      enhanced_dev_enabled       |-> JsonBool(state.enhanced_dev_enabled) ]

json_loads_state(text) ==
    [ env_vars                   |-> text.env_vars,
      network_enabled            |-> JsonParseBool(text.network_enabled),
      vm_enabled                 |-> JsonParseBool(text.vm_enabled),
      container_enabled          |-> JsonParseBool(text.container_enabled),
      comprehensive_test_enabled |-> JsonParseBool(text.comprehensive_test_enabled),
      enhanced_dev_enabled       |-> JsonParseBool(text.enhanced_dev_enabled) ]

json_dumps_metadata(metadata) ==
    [ internal_mode |-> JsonBool(metadata.internal_mode),
      created_at    |-> metadata.created_at,
      last_saved    |-> metadata.last_saved ]

json_loads_metadata(text) ==
    [ internal_mode |-> JsonParseBool(text.internal_mode),
      created_at    |-> text.created_at,
      last_saved    |-> text.last_saved ]

(***************************************************************************)
(* StateDatabase: the environments table.                                  *)
(***************************************************************************)
RowsWithId(table, env_id) == {i \in 1..Len(table) : table[i].id = env_id}

RowsWithName(table, name) == {i \in 1..Len(table) : table[i].name = name}

\* cursor.fetchone(): the first row of the scan, or None.
FetchOne(matches) == IF matches = {} THEN 0
                     ELSE CHOOSE i \in matches : \A j \in matches : i <= j

RemoveAt(table, i) == SubSeq(table, 1, i - 1) \o SubSeq(table, i + 1, Len(table))

\* An UPDATE that leaves created_at alone; the mutant rewrites the whole row.
UpdateRow_replace(old, name, root_dir, current_time, state, metadata) ==
    [ id            |-> old.id,
      name          |-> name,
      root_dir      |-> PathStr(root_dir),
      created_at    |-> current_time,
      last_accessed |-> current_time,
      state         |-> json_dumps_state(state),
      metadata      |-> json_dumps_metadata(metadata) ]

UpdateRow(old, name, root_dir, current_time, state, metadata) ==
    [ old EXCEPT !.name          = name,
                 !.root_dir      = PathStr(root_dir),
                 !.last_accessed = current_time,
                 !.state         = json_dumps_state(state),
                 !.metadata      = json_dumps_metadata(metadata) ]

InsertRow(env_id, name, root_dir, current_time, state, metadata) ==
    [ id            |-> env_id,
      name          |-> name,
      root_dir      |-> PathStr(root_dir),
      created_at    |-> current_time,
      last_accessed |-> current_time,
      state         |-> json_dumps_state(state),
      metadata      |-> json_dumps_metadata(metadata) ]

\* StateDatabase.save_environment: the table after the upsert.
save_environment(table, env_id, name, root_dir, state, metadata, current_time) ==
    LET i == FetchOne(RowsWithId(table, env_id)) IN
    IF i # 0
    THEN [table EXCEPT ![i] = UpdateRow(table[i], name, root_dir, current_time,
                                        state, metadata)]
    ELSE Append(table, InsertRow(env_id, name, root_dir, current_time,
                                 state, metadata))

\* StateDatabase.get_environment: the index of the row found (0: None).
get_environment(table, env_id, name) ==
    IF env_id = None /\ name = None THEN 0
    ELSE IF env_id # None THEN FetchOne(RowsWithId(table, env_id))
    ELSE FetchOne(RowsWithName(table, name))

\* get_environment's update of last_accessed on the row it returns.
touch_environment(table, i, current_time) ==
    [table EXCEPT ![i].last_accessed = current_time]

\* StateDatabase.list_environments: the summaries (order left out).
list_environments(table) ==
    { [ id            |-> table[i].id,
        name          |-> table[i].name,
        root_dir      |-> table[i].root_dir,
        created_at    |-> table[i].created_at,
        last_accessed |-> table[i].last_accessed ] : i \in 1..Len(table) }

\* StateDatabase.delete_environment: the table without the row of env_id.
delete_environment(table, env_id) ==
    LET i == FetchOne(RowsWithId(table, env_id)) IN
    IF i = 0 THEN table ELSE RemoveAt(table, i)

(***************************************************************************)
(* Dictionaries (env_vars) are sets of <<key, value>> pairs.               *)
(***************************************************************************)
DictGet(d, k, default) ==
    IF \E kv \in d : kv[1] = k THEN (CHOOSE kv \in d : kv[1] = k)[2] ELSE default

(***************************************************************************)
(* SafeEnvironment._create_env_file: the env_vars it builds.               *)
(***************************************************************************)
create_env_file(e, t) ==
    { <<"SAFE_ENV_ROOT", PathStr(e.root_dir)>>,
      <<"SAFE_ENV_CACHE", PathStr(e.root_dir \o <<"cache">>)>>,
      <<"SAFE_ENV_LOGS", PathStr(e.root_dir \o <<"logs">>)>>,
      <<"SAFE_ENV_DATA", PathStr(e.root_dir \o <<"data">>)>>,
      <<"SAFE_ENV_TMP", PathStr(e.root_dir \o <<"tmp">>)>>,
      <<"SAFE_ENV_CREATED_AT", IsoTime(t)>> }
    \cup (IF e.persistent
          THEN { <<"SAFE_ENV_PERSISTENT", "true">>, <<"SAFE_ENV_ID", e.env_id>> }
               \cup (IF e.env_name # None
                     THEN { <<"SAFE_ENV_NAME", e.env_name>> } ELSE {})
          ELSE {})

(***************************************************************************)
(* SafeEnvironment.save_state: [db, result].                               *)
(***************************************************************************)
StateOf(e) ==
    [ env_vars                   |-> e.env_vars,
      network_enabled            |-> e.network_enabled,
      vm_enabled                 |-> e.vm_enabled,
      container_enabled          |-> e.container_enabled,
      comprehensive_test_enabled |-> e.comprehensive_test_enabled,
      enhanced_dev_enabled       |-> e.enhanced_dev_enabled ]

MetadataOf(e, t) ==
    [ internal_mode |-> e.internal_mode,
      created_at    |-> DictGet(e.env_vars, "SAFE_ENV_CREATED_AT", IsoTime(t)),
      last_saved    |-> IsoTime(t) ]

save_state(e, table, t) ==
    IF ~e.persistent
    THEN [db |-> table, result |-> FALSE]
    ELSE [db |-> save_environment(table, e.env_id, e.env_name, e.root_dir,
                                  StateOf(e), MetadataOf(e, t), IsoTime(t)),
          result |-> TRUE]

(***************************************************************************)
(* SafeEnvironment.load_from_state: [found, env, db].                      *)
(***************************************************************************)
\* The "Restore state" assignments; the mutant forgets the last flag.
RestoreState_forgets(e, state) ==
    [ e EXCEPT !.env_vars                   = state.env_vars,
               !.network_enabled            = state.network_enabled,
               !.vm_enabled                 = state.vm_enabled,
               !.container_enabled          = state.container_enabled,
               !.comprehensive_test_enabled = state.comprehensive_test_enabled ]

RestoreState(e, state) ==
    [ e EXCEPT !.env_vars                   = state.env_vars,
               !.network_enabled            = state.network_enabled,
               !.vm_enabled                 = state.vm_enabled,
               !.container_enabled          = state.container_enabled,
               !.comprehensive_test_enabled = state.comprehensive_test_enabled,
               !.enhanced_dev_enabled       = state.enhanced_dev_enabled ]

load_from_state(table, files, env_id, env_name, t) ==
    LET i == get_environment(table, env_id, env_name) IN
    IF i = 0
    THEN [found |-> FALSE, env |-> None, db |-> table]
    ELSE LET row      == table[i]
             state    == json_loads_state(row.state)
             metadata == json_loads_metadata(row.metadata)
             root_dir == PathOf(row.root_dir)
             touched  == touch_environment(table, i, IsoTime(t))
         IN  IF root_dir \notin files
             THEN [found |-> FALSE, env |-> None, db |-> touched]
             ELSE [found |-> TRUE,
                   env   |-> RestoreState(
                                 SafeEnvironment(root_dir, metadata.internal_mode,
                                                 FALSE, TRUE, row.id, row.name),
                                 state),
                   db    |-> touched]

(***************************************************************************)
(* SafeEnvironment.delete_saved_state: [db, result].                       *)
(***************************************************************************)
delete_saved_state(e, table) ==
    IF ~e.persistent
    THEN [db |-> table, result |-> FALSE]
    ELSE [db |-> delete_environment(table, e.env_id),
          result |-> RowsWithId(table, e.env_id) # {}]

(***************************************************************************)
(* SafeEnvironment.create: [env, fs, db, result].                          *)
(***************************************************************************)
CreateFaults == {"none", "move", "move_rmtree", "mkdir_root", "mkdir_subdir"}

BackupDir(root_dir, t) ==
    Parent(root_dir) \o <<root_dir[Len(root_dir)] \o "_backup_" \o IsoTime(t)>>

\* shutil.move(src, dst)
move(files, src, dst) ==
    {q \in files : ~IsUnder(q, src)}
    \cup {dst \o SubSeq(q, Len(src) + 1, Len(q)) : q \in {r \in files : IsUnder(r, src)}}

create(e, files, table, t, fault) ==
    LET backing == e.internal_mode /\ e.root_dir \in files
        f1 == IF ~backing THEN files
              ELSE IF fault \notin {"move", "move_rmtree"}
                   THEN move(files, e.root_dir, BackupDir(e.root_dir, t))
              ELSE IF fault = "move" THEN rmtree(files, e.root_dir)
              ELSE files
        f2 == create_secure_directory(f1, e.root_dir)
        f3 == f2 \cup {e.root_dir \o <<d>> : d \in SubDirs}
        e1 == [e EXCEPT !.env_vars = create_env_file(e, t)]
        f4 == f3 \cup {e.root_dir \o <<".env">>}
        saved == save_state(e1, table, t)
    IN  IF backing /\ fault = "move_rmtree"
        THEN [env |-> e, fs |-> files, db |-> table, result |-> FALSE]
        ELSE IF fault = "mkdir_root"
        THEN [env |-> e, fs |-> f1, db |-> table, result |-> FALSE]
        ELSE IF fault = "mkdir_subdir"
        THEN [env |-> e, fs |-> f2, db |-> table, result |-> FALSE]
        ELSE [env |-> e1, fs |-> f4,
              db |-> IF e.persistent THEN saved.db ELSE table,
              result |-> TRUE]

(***************************************************************************)
(* Facet setups: [env, fs, result].  The outcome of the manager's setup()  *)
(* (its external commands) is the input.                                   *)
(***************************************************************************)
\* SafeEnvironment.setup_network_isolation; NetworkIsolation.setup() gave ok.
setup_network_isolation(e, files, ok) ==
    IF e.network_isolation
    THEN [env |-> e, fs |-> files, result |-> TRUE]
    ELSE IF ok
    THEN [env |-> [e EXCEPT !.network_isolation = TRUE, !.network_enabled = TRUE],
          fs |-> files \cup {e.root_dir \o <<".env">>}, result |-> TRUE]
    ELSE [env |-> [e EXCEPT !.network_isolation = TRUE],
          fs |-> files, result |-> FALSE]

\* SafeEnvironment.setup_vm; VMManager.setup() gave ok.  What the manager
\* writes below root_dir/vm goes with the root and is not tracked in fs.
setup_vm(e, files, ok) ==
    IF e.vm_manager
    THEN [env |-> e, fs |-> files, result |-> TRUE]
    ELSE IF ok
    THEN [env |-> [e EXCEPT !.vm_manager = TRUE, !.vm_enabled = TRUE],
          fs |-> files, result |-> TRUE]
    ELSE [env |-> [e EXCEPT !.vm_manager = FALSE], fs |-> files, result |-> FALSE]

\* SafeEnvironment.setup_container; ContainerManager.setup() gave ok.
setup_container(e, files, ok) ==
    IF e.container_manager
    THEN [env |-> e, fs |-> files, result |-> TRUE]
    ELSE IF ok
    THEN [env |-> [e EXCEPT !.container_manager = TRUE, !.container_enabled = TRUE],
          fs |-> files, result |-> TRUE]
    ELSE [env |-> [e EXCEPT !.container_manager = FALSE], fs |-> files, result |-> FALSE]

\* SafeEnvironment.setup_comprehensive_testing;
\* TestEnvironment.setup_comprehensive_testing() gave ok.
setup_comprehensive_testing(e, files, ok) ==
    IF e.test_environment /\ e.comprehensive_test_enabled
    THEN [env |-> e, fs |-> files, result |-> TRUE]
    ELSE IF ok
    THEN [env |-> [e EXCEPT !.test_environment = TRUE,
                            !.comprehensive_test_enabled = TRUE],
          fs |-> files \cup {e.root_dir \o <<".env">>}, result |-> TRUE]
    ELSE [env |-> [e EXCEPT !.test_environment = TRUE],
          fs |-> files, result |-> FALSE]

\* SafeEnvironment.setup_enhanced_environment;
\* TestEnvironment.setup_enhanced_environment() gave ok.
setup_enhanced_environment(e, files, ok) ==
    IF e.test_environment /\ e.enhanced_dev_enabled
    THEN [env |-> e, fs |-> files, result |-> TRUE]
    ELSE IF ok
    THEN [env |-> [e EXCEPT !.test_environment = TRUE,
                            !.enhanced_dev_enabled = TRUE],
          fs |-> files \cup {e.root_dir \o <<".env">>}, result |-> TRUE]
    ELSE [env |-> [e EXCEPT !.test_environment = TRUE],
          fs |-> files, result |-> FALSE]

(***************************************************************************)
(* SafeEnvironment.cleanup                                                 *)
(***************************************************************************)
\* The guard of each facet's release.
\* The guards of cleanup's facet blocks, were they to look at the
\* component only.
FacetEnabled_component_only(e, step) ==
    CASE step = "testing"   -> e.test_environment
      [] step = "container" -> e.container_manager
      [] step = "vm"        -> e.vm_manager
      [] step = "network"   -> e.network_isolation

FacetEnabled(e, step) ==
    CASE step = "testing"   -> (e.comprehensive_test_enabled \/ e.enhanced_dev_enabled)
                               /\ e.test_environment
      [] step = "container" -> e.container_enabled /\ e.container_manager
      [] step = "vm"        -> e.vm_enabled /\ e.vm_manager
      [] step = "network"   -> e.network_enabled /\ e.network_isolation

\* What a facet's release leaves of the object.
Released(e, step) ==
    CASE step = "testing"   -> [e EXCEPT !.comprehensive_test_enabled = FALSE,
                                         !.enhanced_dev_enabled = FALSE]
      [] step = "container" -> [e EXCEPT !.container_enabled = FALSE,
                                         !.container_manager = FALSE]
      [] step = "vm"        -> [e EXCEPT !.vm_enabled = FALSE, !.vm_manager = FALSE]
      [] step = "network"   -> [e EXCEPT !.network_enabled = FALSE,
                                         !.network_isolation = FALSE]

\* Only TestEnvironment.cleanup can raise (shutil.rmtree and unlink are not
\* guarded there); the managers' cleanup() ignore their commands' failures.
Raises(step, test_fault) == step = "testing" /\ test_fault

\* One facet's block of cleanup, on w = [env, log, raised].
ReleaseStep(w, step, test_fault) ==
    IF w.raised \/ ~FacetEnabled(w.env, step) THEN w
    ELSE IF Raises(step, test_fault)
    THEN [w EXCEPT !.log = Append(@, step), !.raised = TRUE]
    ELSE [w EXCEPT !.env = Released(@, step), !.log = Append(@, step)]

\* The order of the facet blocks; the mutant releases the VM before the container.
CleanupOrder_vm_first == <<"testing", "vm", "container", "network">>

CleanupOrder == <<"testing", "container", "vm", "network">>

RECURSIVE ReleaseFacets(_, _, _)
ReleaseFacets(w, steps, test_fault) ==
    IF steps = <<>> THEN w
    ELSE ReleaseFacets(ReleaseStep(w, Head(steps), test_fault), Tail(steps), test_fault)

\* Removal of the root: shutil.rmtree, and `sudo rm -rf` when it fails and a
\* password is set.  rm_ok, sudo_ok: whether each succeeds.  The mutant takes
\* rmtree's failure for a removal.
RemoveRoot_ignores_failure(files, e, rm_ok, sudo_ok) ==
    [fs |-> IF rm_ok THEN rmtree(files, e.root_dir) ELSE files, rm |-> "removed"]

RemoveRoot(files, e, rm_ok, sudo_ok) ==
    IF rm_ok \/ (e.sudo_password /\ sudo_ok)
    THEN [fs |-> rmtree(files, e.root_dir), rm |-> "removed"]
    ELSE [fs |-> files, rm |-> "failed"]

\* cleanup: [env, fs, db, log, raised, rm, saved].
cleanup(e, files, table, t, keep_dir, test_fault, rm_ok, sudo_ok) ==
    LET w == ReleaseFacets([env |-> e, log |-> <<>>, raised |-> FALSE],
                           CleanupOrder, test_fault)
        unchanged == [env |-> w.env, fs |-> files, db |-> table, log |-> w.log,
                      raised |-> w.raised, rm |-> "none", saved |-> FALSE]
    IN  IF w.raised THEN unchanged
        ELSE IF w.env.internal_mode /\ ~keep_dir THEN unchanged
        ELSE IF w.env.persistent
        THEN [unchanged EXCEPT !.db = save_state(w.env, table, t).db,
                               !.log = Append(@, "directory"),
                               !.saved = TRUE]
        ELSE IF ~keep_dir /\ w.env.root_dir \in files
        THEN LET r == RemoveRoot(files, w.env, rm_ok, sudo_ok) IN
             [unchanged EXCEPT !.fs = r.fs, !.log = Append(@, "directory"), !.rm = r.rm]
        ELSE unchanged

(***************************************************************************)
(* The calls a client makes.  call records the last one and its outcome.   *)
(***************************************************************************)
NoCall ==
    [ op       |-> "init",
      prev     |-> "none",    \* cleanup, load_from_state: what the call before was
      keep_dir |-> FALSE,     \* cleanup's argument
      env_id   |-> None,      \* load_from_state's arguments
      env_name |-> None,
      result   |-> TRUE,      \* the value returned (True / an object)
      raised   |-> FALSE,     \* an exception left the call
      log      |-> <<>>,      \* cleanup: the steps entered, in order
      rm       |-> "none",    \* cleanup: the outcome of the root's removal
      saved    |-> FALSE ]    \* cleanup: save_state() was called

\* The calls a claim follows by a cleanup or a load_from_state.
Followed == {"save_state", "cleanup"}

PrevOf(op) ==
    IF op \in {"cleanup", "load_from_state"} /\ call.op \in Followed /\ ~call.raised
    THEN call.op ELSE "none"

Call(op) == [NoCall EXCEPT !.op = op, !.prev = PrevOf(op)]

\* The facet setups of the controller.
Setups == {"setup_network_isolation", "setup_vm", "setup_container",
           "setup_comprehensive_testing", "setup_enhanced_environment"}

\* A command line asks for at most two facets.
FacetPlans == {p \in {{a, b} : a, b \in Setups} : \E a, b \in p : a # b}

\* The command lines in use.  Names are given to persistent sandboxes outside
\* internal mode, a sudo password to those whose root cleanup may have to remove.
Configs ==
    { c \in [ env_id : EnvIds, internal_mode : BOOLEAN, sudo_password : BOOLEAN,
              persistent : BOOLEAN, env_name : EnvNames \cup {None},
              facets : FacetPlans ] :
        /\ c.env_name # None => c.persistent /\ ~c.internal_mode
        /\ c.sudo_password => ~c.persistent /\ ~c.internal_mode }

Construct(c) ==
    SafeEnvironment(RootOf(c.env_id), c.internal_mode, c.sudo_password,
                    c.persistent, c.env_id, c.env_name)

\* The clock moves past every time a call has written down.
Tick(stamped) == now' = IF stamped THEN now + 1 ELSE now

\* The cache directory before any artifact is put: no index file, no content.
Absent == [kind |-> "absent"]

NoFiles == [hash_val \in {} |-> <<>>]

NoCacheCall ==
    [ op |-> "open", key |-> None, result |-> None, raised |-> FALSE,
      data |-> <<>>, fresh |-> FALSE, again |-> FALSE ]

CacheInit ==
    /\ artifact_index = <<>>
    /\ index_file = Absent
    /\ content = NoFiles
    /\ metadata_files = {}
    /\ ctime = 0
    /\ cret = NoCacheCall

\* No thread pool is running.
Threads == {"t1", "t2"}

NoThreads == [t \in Threads |-> [pc |-> "idle", file |-> None, result |-> None]]

\* class NetworkSettings: the defaults a NetworkIsolation object starts from.
NetworkSettings ==
    [ default_latency |-> "50ms", default_jitter |-> "10ms",
      default_packet_loss |-> 0, default_packet_corruption |-> 0,
      default_packet_reordering |-> 0, default_bandwidth |-> "10mbit",
      simulate_conditions |-> FALSE ]

\* NetworkIsolation.__init__: the Conditions record.
NetworkIsolation(settings) ==
    [ latency |-> settings.default_latency, jitter |-> settings.default_jitter,
      packet_loss |-> settings.default_packet_loss,
      packet_corruption |-> settings.default_packet_corruption,
      packet_reordering |-> settings.default_packet_reordering,
      bandwidth |-> settings.default_bandwidth,
      simulate_conditions |-> settings.simulate_conditions,
      current_conditions_active |-> FALSE ]

\* No qdisc has been attached to the device: the kernel's default serves it.
NoQdisc == [kind |-> "none", args |-> <<>>]

NoArgs == [a \in {} |-> None]

\* The call before a reset_network_conditions, where one is recorded.
NoneBefore == [op |-> "None", result |-> TRUE, active |-> FALSE]

NoNetCall ==
    [op |-> "init", args |-> NoArgs, failing |-> "none", result |-> TRUE,
     after |-> NoneBefore]

\* After NetworkIsolation.setup() on Linux: the namespace and veth1 are
\* there, nothing is shaped.
NetworkInit ==
    /\ netiso = NetworkIsolation(NetworkSettings)
    /\ host = [qdisc |-> NoQdisc]
    /\ ncall = NoNetCall

\* A host on which no sandbox has set anything up.  netns and veth say who
\* made the object ("none": it is not there); nat lists the MASQUERADE
\* rules for the subnet in POSTROUTING, by who appended them.
NoTopology ==
    [ netns |-> "none", veth |-> "none", moved |-> FALSE,
      host_addr |-> FALSE, ns_addr |-> FALSE, host_up |-> FALSE,
      ns_up |-> FALSE, lo_up |-> FALSE, nat |-> <<>>, route |-> FALSE,
      forward |-> FALSE ]

NoTopoCall ==
    [op |-> "init", failing |-> "none", result |-> TRUE,
     after |-> [op |-> "None", result |-> TRUE]]

TopologyInit ==
    /\ topo = NoTopology
    /\ tcall = NoTopoCall

\* The managers of one sandbox before any setup: what they were built with
\* (sudo_password, config.network_enabled), the files below vm/ and
\* container/, and the runtime's objects (network: who created safespace_net).
NoManagers ==
    [ sudo_password |-> FALSE, network_enabled |-> FALSE, files |-> {},
      image |-> FALSE, network |-> "none", container |-> "none",
      disk |-> FALSE ]

NoManagerCall == [op |-> "init", result |-> TRUE, log |-> <<>>, tools |-> TRUE]

ManagerInit ==
    /\ mgr = NoManagers
    /\ mcall = NoManagerCall

\* ResourceManager.resource_check_interval, in seconds.
ResourceCheckInterval == 5

\* WorkloadType by the load, cpu and memory in percent.
determine_workload_type(load) ==
    IF load.cpu > 70 \/ load.memory > 80 THEN "heavy"
    ELSE IF load.cpu > 30 \/ load.memory > 50 THEN "medium"
    ELSE "light"

\* ResourceManager(cache_dir) where resource_config.json holds config, on
\* a host of cpu_count logical cpus under load at time t (time.time(), in
\* seconds, never 0).
ResourceManager(config, cpu_count, load, t) ==
    [ performance_cores |-> config.performance_cores,
      efficiency_cores |-> config.efficiency_cores,
      cache_limit_bytes |-> config.cache_limit_bytes,
      last_resource_check |-> 0,
      current_load |-> load,
      current_workload_type |-> determine_workload_type(load),
      cpu_count |-> cpu_count,
      time |-> t ]

\* The cache directory the ResourceManager is constructed over: only
\* resource_config.json in it (sizes in whole KiB, mtime in seconds).
NoCacheFiles == [name \in {"resource_config.json"} |-> [size |-> 1, mtime |-> 99]]

NoResourceCall == [op |-> "init", result |-> <<>>, given |-> <<>>]

ResourceInit ==
    /\ resmgr = ResourceManager([performance_cores |-> 2, efficiency_cores |-> 2,
                                 cache_limit_bytes |-> 102400],
                                4, [cpu |-> 10, memory |-> 10], 100)
    /\ rcall = NoResourceCall

Init ==
    /\ args \in Configs
    /\ env = Construct(args)
    /\ live = "new"
    /\ fs = {TempDir}
    /\ db = <<>>
    /\ now = 0
    /\ call = NoCall
    /\ env_file = <<>>
    /\ CacheInit
    /\ threads = NoThreads
    /\ dl_files = NoFiles
    /\ NetworkInit
    /\ TopologyInit
    /\ ManagerInit
    /\ ResourceInit
    /\ evicted = <<>>
    /\ cache_dir = NoCacheFiles

\* SafeEnvironment(...): the tool is run again.
New ==
    /\ env' = Construct(args)
    /\ live' = "new"
    /\ call' = Call("init")
    /\ UNCHANGED <<args, fs, db, now>>

\* The faults create() can meet: a move fails only where there is one.
FaultsOf(e, files) ==
    IF e.internal_mode /\ e.root_dir \in files
    THEN CreateFaults ELSE CreateFaults \ {"move", "move_rmtree"}

\* env.create()
Create(fault) ==
    /\ live = "new"
    /\ now < MaxClock
    /\ fault \in FaultsOf(env, fs)
    /\ LET r == create(env, fs, db, now, fault) IN
       /\ env' = r.env
       /\ fs' = r.fs
       /\ db' = r.db
       /\ live' = IF r.result THEN "ready" ELSE "new"
       /\ call' = [Call("create") EXCEPT !.result = r.result]
       /\ Tick(r.result \/ BackupDir(env.root_dir, now) \in r.fs)
    /\ UNCHANGED args

SetupDone(op, r) ==
    /\ live = "ready"
    /\ op \in args.facets
    /\ env' = r.env
    /\ fs' = r.fs
    /\ call' = [Call(op) EXCEPT !.result = r.result]
    /\ UNCHANGED <<args, live, db, now>>

\* env.setup_network_isolation()
SetupNetworkIsolation(ok) ==
    /\ SetupDone("setup_network_isolation", setup_network_isolation(env, fs, ok))

\* env.setup_vm()
SetupVm(ok) ==
    /\ SetupDone("setup_vm", setup_vm(env, fs, ok))

\* env.setup_container()
SetupContainer(ok) ==
    /\ SetupDone("setup_container", setup_container(env, fs, ok))

\* env.setup_comprehensive_testing()
SetupComprehensiveTesting(ok) ==
    /\ SetupDone("setup_comprehensive_testing", setup_comprehensive_testing(env, fs, ok))

\* env.setup_enhanced_environment()
SetupEnhancedEnvironment(ok) ==
    /\ SetupDone("setup_enhanced_environment", setup_enhanced_environment(env, fs, ok))

\* env.save_state(); the facets are configured before the first save.
SaveState ==
    /\ live \in {"ready", "saved", "cleaned"}
    /\ env.persistent => now < MaxClock
    /\ LET r == save_state(env, db, now) IN
       /\ db' = r.db
       /\ call' = [Call("save_state") EXCEPT !.result = r.result]
       /\ Tick(r.result)
    /\ live' = IF live = "ready" THEN "saved" ELSE live
    /\ UNCHANGED <<args, env, fs>>

\* The faults cleanup() can meet: TestEnvironment.cleanup raises only where it
\* is called; the root's removal fails only where it is tried, the sudo
\* fallback only where rmtree failed.
TestFaultsOf(e) == IF FacetEnabled(e, "testing") THEN BOOLEAN ELSE {FALSE}

RemovalsOf(e, files, keep_dir) ==
    IF keep_dir \/ e.internal_mode \/ e.persistent \/ e.root_dir \notin files
    THEN {<<TRUE, TRUE>>}
    ELSE {<<TRUE, TRUE>>, <<FALSE, TRUE>>, <<FALSE, FALSE>>}

\* env.cleanup(keep_dir)
Cleanup(keep_dir, test_fault, rm) ==
    /\ live \in {"ready", "saved", "cleaned"}
    /\ test_fault \in TestFaultsOf(env)
    /\ rm \in RemovalsOf(env, fs, keep_dir)
    /\ LET r == cleanup(env, fs, db, now, keep_dir, test_fault, rm[1], rm[2]) IN
       /\ r.saved => now < MaxClock
       /\ env' = r.env
       /\ fs' = r.fs
       /\ db' = r.db
       /\ Tick(r.saved)
       /\ call' = [Call("cleanup") EXCEPT !.keep_dir = keep_dir,
                                          !.result = ~r.raised,
                                          !.raised = r.raised,
                                          !.log = r.log,
                                          !.rm = r.rm,
                                          !.saved = r.saved]
    /\ live' = "cleaned"
    /\ UNCHANGED args

\* SafeEnvironment.load_from_state(env_id, env_name): a new session on the
\* object returned; on None the client keeps what it had.  A sandbox is asked
\* for by the name the command line gave it.
LoadFromState(env_id, env_name) ==
    /\ now < MaxClock
    /\ env_name # None => env_name = args.env_name
    /\ LET r == load_from_state(db, fs, env_id, env_name, now) IN
       /\ env' = IF r.found THEN r.env ELSE env
       /\ live' = IF r.found THEN "ready" ELSE live
       /\ db' = r.db
       /\ Tick(r.db # db)
       /\ call' = [Call("load_from_state") EXCEPT !.env_id = env_id,
                                                  !.env_name = env_name,
                                                  !.result = r.found]
    /\ UNCHANGED <<args, fs>>

\* env.delete_saved_state()
DeleteSavedState ==
    /\ live \in {"ready", "saved", "cleaned"}
    /\ LET r == delete_saved_state(env, db) IN
       /\ db' = r.db
       /\ call' = [Call("delete_saved_state") EXCEPT !.result = r.result]
    /\ UNCHANGED <<args, env, live, fs, now>>

Next ==
    \/ New /\ UNCHANGED outside
    \/ \E fault \in CreateFaults : Create(fault) /\ UNCHANGED outside
    \/ \E ok \in BOOLEAN : SetupNetworkIsolation(ok) /\ UNCHANGED outside
    \/ \E ok \in BOOLEAN : SetupVm(ok) /\ UNCHANGED outside
    \/ \E ok \in BOOLEAN : SetupContainer(ok) /\ UNCHANGED outside
    \/ \E ok \in BOOLEAN : SetupComprehensiveTesting(ok) /\ UNCHANGED outside
    \/ \E ok \in BOOLEAN : SetupEnhancedEnvironment(ok) /\ UNCHANGED outside
    \/ SaveState /\ UNCHANGED outside
    \/ \E keep_dir, test_fault \in BOOLEAN, rm \in BOOLEAN \X BOOLEAN :
           Cleanup(keep_dir, test_fault, rm) /\ UNCHANGED outside
    \/ \E env_id \in EnvIds : LoadFromState(env_id, None) /\ UNCHANGED outside
    \/ \E env_name \in EnvNames : LoadFromState(None, env_name) /\ UNCHANGED outside
    \/ DeleteSavedState /\ UNCHANGED outside

Spec == Init /\ [][Next]_vars

(***************************************************************************)
(* Properties.  A call's step is the one that leaves its record in call';  *)
(* env, fs, db are then the state the call was entered in.                 *)
(***************************************************************************)
InLog(log, step) == \E i \in 1..Len(log) : log[i] = step

FacetSteps == {"testing", "container", "vm", "network"}

\* The row of the live sandbox in the State Store (0: none).
OwnRow(table) == FetchOne(RowsWithId(table, env.env_id))

Ephemeral(e) == ~e.internal_mode /\ ~e.persistent

ReleaseOrder == <<"testing", "container", "vm", "network", "directory">>

Position(step) == CHOOSE i \in 1..Len(ReleaseOrder) : ReleaseOrder[i] = step

\* C2: the steps of a cleanup() run in the order testing, container, VM,
\* network, directory: a step is entered only after every enabled step that
\* comes earlier in this order.
C2_CleanupOrder ==
    [][call'.op = "cleanup" =>
          \A j \in 1..Len(call'.log) :
              /\ \A i \in 1..(j - 1) : Position(call'.log[i]) < Position(call'.log[j])
              /\ \A step \in FacetSteps :
                     (Position(step) < Position(call'.log[j]) /\ FacetEnabled(env, step))
                         => \E i \in 1..(j - 1) : call'.log[i] = step]_vars

\* C2 (witness): a cleanup released the container, then the VM, then went on to the
\* directory.
C2_Witness ==
    /\ call.op = "cleanup"
    /\ call.log = <<"container", "vm", "directory">>

\* C3: every cleanup() of a persistent sandbox that returns leaves the root
\* in place and has saved the sandbox's state: its row holds the state
\* the call left, stamped with the time of the call.
C3_PersistentCleanupSaves ==
    [][(call'.op = "cleanup" /\ ~call'.raised /\ env.persistent /\ env.root_dir \in fs) =>
          /\ env.root_dir \in fs'
          /\ call'.saved
          /\ OwnRow(db') # 0
          /\ db'[OwnRow(db')].state = json_dumps_state(StateOf(env'))
          /\ db'[OwnRow(db')].last_accessed = IsoTime(now)]_vars

SecondCleanup ==
    /\ call.op = "cleanup" /\ ~call.keep_dir /\ ~call.raised
    /\ call'.op = "cleanup" /\ ~call'.keep_dir

SameButTimes(t1, t2) ==
    /\ Len(t1) = Len(t2)
    /\ \A i \in 1..Len(t1) :
           t2[i] = [t1[i] EXCEPT !.last_accessed = t2[i].last_accessed,
                                 !.metadata.last_saved = t2[i].metadata.last_saved]

C6_PersistentReentry ==
    [][( /\ call.op = "cleanup" /\ ~call.raised /\ InLog(call.log, "network")
         /\ env.persistent /\ env.env_name = "alpha"
         /\ call'.op = "load_from_state" /\ call'.env_name = "alpha" ) =>
          /\ env.root_dir \in fs
          /\ \E r \in list_environments(db) : r.name = "alpha"
          /\ call'.result
          /\ env'.network_enabled
          /\ env'.env_vars = env.env_vars]_vars

\* C7: load_from_state(id) right after the sandbox's save_state() returned
\* True gives a sandbox with the same env_vars, flags and root.
C7_RoundTrip ==
    [][( /\ call.op = "save_state" /\ call.result
         /\ call'.op = "load_from_state" /\ call'.env_id = env.env_id ) =>
          /\ call'.result
          /\ env'.env_vars = env.env_vars
          /\ \A f \in FacetFlags : env'[f] = env[f]
          /\ env'.root_dir = env.root_dir]_vars

\* C7 (witness): a sandbox with two facets set was saved and then loaded by its id.
C7_Witness ==
    /\ call.op = "load_from_state" /\ call.prev = "save_state"
    /\ call.env_id = env.env_id /\ call.result
    /\ env.enhanced_dev_enabled /\ env.network_enabled

\* C8: where the network flag is set a NetworkIsolation is attached.
C8_NetworkFlagHasComponent ==
    env.network_enabled => env.network_isolation

\* C9: within a session only cleanup() clears a facet flag, and after a
\* cleanup() that returned no flag is set.
C9_FlagsClearedOnlyByCleanup ==
    [][ /\ call'.op \in Setups \cup {"create", "save_state", "delete_saved_state"}
            => \A f \in FacetFlags : env[f] => env'[f]
        /\ (call'.op = "cleanup" /\ ~call'.raised) => FlagsSet(env') = {} ]_vars

OwnFlag(op) ==
    CASE op = "setup_vm" -> "vm_enabled"
      [] op = "setup_container" -> "container_enabled"
      [] op = "setup_network_isolation" -> "network_enabled"

OwnComponent(op) ==
    CASE op = "setup_vm" -> "vm_manager"
      [] op = "setup_container" -> "container_manager"
      [] op = "setup_network_isolation" -> "network_isolation"

Components == {"network_isolation", "vm_manager", "container_manager", "test_environment"}

\* C10: a failing setup_vm, setup_container or setup_network_isolation leaves
\* its own flag false and the other facets' flags and components as they were.
C10_FailedSetupIsLocal ==
    [][(call'.op \in {"setup_vm", "setup_container", "setup_network_isolation"}
        /\ ~call'.result) =>
          /\ ~env'[OwnFlag(call'.op)]
          /\ \A f \in FacetFlags \ {OwnFlag(call'.op)} : env'[f] = env[f]
          /\ \A m \in Components \ {OwnComponent(call'.op)} : env'[m] = env[m]]_vars

(***************************************************************************)
(* <root>/.env: the file create() writes from the env snapshot and the     *)
(* setups append to.  SpecEnvFile follows one sandbox through create() and *)
(* its setups and keeps the lines of the file next to the controller.      *)
(***************************************************************************)
\* _create_env_file: open(env_file, "w") and one KEY=VALUE line per item of
\* env_vars, in the order the keys were inserted.
write_env_file(e, t) ==
    << <<"SAFE_ENV_ROOT", PathStr(e.root_dir)>>,
       <<"SAFE_ENV_CACHE", PathStr(e.root_dir \o <<"cache">>)>>,
       <<"SAFE_ENV_LOGS", PathStr(e.root_dir \o <<"logs">>)>>,
       <<"SAFE_ENV_DATA", PathStr(e.root_dir \o <<"data">>)>>,
       <<"SAFE_ENV_TMP", PathStr(e.root_dir \o <<"tmp">>)>>,
       <<"SAFE_ENV_CREATED_AT", IsoTime(t)>> >>
    \o (IF e.persistent
        THEN << <<"SAFE_ENV_PERSISTENT", "true">>, <<"SAFE_ENV_ID", e.env_id>> >>
             \o (IF e.env_name # None
                 THEN << <<"SAFE_ENV_NAME", e.env_name>> >> ELSE <<>>)
        ELSE <<>>)

\* NetworkIsolation._update_env_file at the end of the Linux setup.
network_update_env_file ==
    << <<"NETWORK_NAMESPACE", "safespace_net">>, <<"VETH_HOST", "veth0">>,
       <<"VETH_NAMESPACE", "veth1">> >>

\* VMManager._update_env_file at the end of setup (the MAC address, drawn at
\* random, is left out).
vm_update_env_file ==
    << <<"VM_ENABLED", "true">>, <<"VM_MEMORY", "1024M">>, <<"VM_CPUS", "2">>,
       <<"VM_DISK_SIZE", "10G">> >>

\* ContainerManager._update_env_file at the end of setup (the container name,
\* drawn at random, and the runtime found are left out).
container_update_env_file ==
    << <<"CONTAINER_ENABLED", "true">>, <<"CONTAINER_IMAGE", "alpine:latest">> >>

\* The lines a setup appends (open(..., "a")) when entered on e and the
\* manager's setup() gave ok.
setup_appends(op, e, ok) ==
    IF ~ok THEN <<>>
    ELSE IF op = "setup_network_isolation" /\ ~e.network_isolation
    THEN network_update_env_file \o << <<"NETWORK_ENABLED", "true">> >>
    ELSE IF op = "setup_vm" /\ ~e.vm_manager
    THEN vm_update_env_file
    ELSE IF op = "setup_container" /\ ~e.container_manager
    THEN container_update_env_file
    ELSE IF op = "setup_comprehensive_testing"
            /\ ~(e.test_environment /\ e.comprehensive_test_enabled)
    THEN << <<"COMPREHENSIVE_TEST_ENABLED", "true">> >>
    ELSE IF op = "setup_enhanced_environment"
            /\ ~(e.test_environment /\ e.enhanced_dev_enabled)
    THEN << <<"ENHANCED_DEV_ENABLED", "true">> >>
    ELSE <<>>

\* create() and the file: written anew on success; gone with the root when a
\* failed create() has moved or removed it.
EnvFileCreate(fault) ==
    /\ Create(fault)
    /\ env_file' = IF call'.result THEN write_env_file(env, now)
                   ELSE IF env.root_dir \o <<".env">> \in fs' THEN env_file
                   ELSE <<>>

EnvFileSetup(op, ok) ==
    /\ env_file' = env_file \o setup_appends(op, env, ok)

NextEnvFile ==
    \/ New /\ UNCHANGED outside
    \/ \E fault \in CreateFaults : EnvFileCreate(fault) /\ UNCHANGED besidesEnvFile
    \/ \E ok \in BOOLEAN :
           SetupNetworkIsolation(ok) /\ EnvFileSetup("setup_network_isolation", ok) /\ UNCHANGED besidesEnvFile
    \/ \E ok \in BOOLEAN : SetupVm(ok) /\ EnvFileSetup("setup_vm", ok) /\ UNCHANGED besidesEnvFile
    \/ \E ok \in BOOLEAN : SetupContainer(ok) /\ EnvFileSetup("setup_container", ok) /\ UNCHANGED besidesEnvFile
    \/ \E ok \in BOOLEAN :
           SetupComprehensiveTesting(ok)
           /\ EnvFileSetup("setup_comprehensive_testing", ok) /\ UNCHANGED besidesEnvFile
    \/ \E ok \in BOOLEAN :
           SetupEnhancedEnvironment(ok)
           /\ EnvFileSetup("setup_enhanced_environment", ok) /\ UNCHANGED besidesEnvFile

SpecEnvFile == Init /\ [][NextEnvFile]_vars

IsPrefix(s, t) == Len(s) <= Len(t) /\ \A i \in 1..Len(s) : s[i] = t[i]

Lines(file) == {file[i] : i \in 1..Len(file)}

\* C11: in a session, after create() and any setups, every KEY=VALUE line
\* written to .env is in the env snapshot (env_vars) with the same value,
\* and a setup only appends to the file.
C11_EnvFileInSnapshot ==
    [][/\ live' = "ready" => Lines(env_file') \subseteq env'.env_vars
       /\ call'.op \in Setups => IsPrefix(env_file, env_file')]_vars

(***************************************************************************)
(* The content-addressed artifact cache (safespace/artifact_cache.py).     *)
(* A cache is the record [index, file, content, meta]: the in-memory index *)
(* (a dict, kept in insertion order), the index file, the content          *)
(* directory and the metadata directory.                                   *)
(***************************************************************************)
\* max_size_bytes of the cache under test.
MaxSizeBytes == 3

\* The files offered to put, and the bytes in them.
SourceFiles == {"a.txt", "copy_of_a.txt", "b.txt", "c.txt"}

\* A file one byte larger than the cache's budget.
Oversized == "big.iso"

\* The temporary file a download of a file is streamed to.
TempName(file) == "download_" \o file

Data(file) ==
    CASE file \in {"a.txt", "copy_of_a.txt", TempName("a.txt")} -> <<1>>
      [] file \in {"b.txt", TempName("b.txt")} -> <<2, 2>>
      [] file \in {"c.txt", TempName("c.txt")} -> <<3>>
      [] file = Oversized -> [i \in 1..(MaxSizeBytes + 1) |-> 4]

Blobs == {Data(f) : f \in SourceFiles}

\* _compute_hash: the SHA-256 hex digest, one key per byte string.
compute_hash(bytes) == "sha256" \o ToString(bytes)

Keys == {compute_hash(b) : b \in Blobs}

\* class ArtifactType: member |-> value.
ArtifactType ==
    ("VM_IMAGE" :> "vm_image") @@ ("TEST_ARTIFACT" :> "test_artifact")
    @@ ("CONTAINER_IMAGE" :> "container_image") @@ ("PACKAGE" :> "package")
    @@ ("OTHER" :> "other")

\* ArtifactMetadata(...) as put builds it: access_time from time.time(),
\* access_count at its default.
ArtifactMetadata(hash, original_name, type, size, t) ==
    [ hash |-> hash, original_name |-> original_name, type |-> type,
      size |-> size, access_time |-> t, access_count |-> 0 ]

MetadataFields ==
    {"hash", "original_name", "type", "size", "access_time", "access_count"}

RequiredFields == {"hash", "original_name", "type", "size"}

\* ArtifactMetadata.to_dict: the enum member becomes its value.
to_dict(m) == [m EXCEPT !.type = ArtifactType[m.type]]

\* ArtifactMetadata.from_dict: [err, value].  data["type"] raises KeyError,
\* ArtifactType(...) ValueError, cls(**data) TypeError on a missing or an
\* unexpected keyword.
from_dict(data, t) ==
    IF "type" \notin DOMAIN data THEN [err |-> "KeyError", value |-> None]
    ELSE IF \A member \in DOMAIN ArtifactType : ArtifactType[member] # data.type
    THEN [err |-> "ValueError", value |-> None]
    ELSE IF ~(DOMAIN data \subseteq MetadataFields)
            \/ ~(RequiredFields \subseteq DOMAIN data)
    THEN [err |-> "TypeError", value |-> None]
    ELSE [err |-> None,
          value |-> [ hash |-> data.hash, original_name |-> data.original_name,
                      type |-> CHOOSE member \in DOMAIN ArtifactType :
                                   ArtifactType[member] = data.type,
                      size |-> data.size,
                      access_time |-> IF "access_time" \in DOMAIN data
                                      THEN data.access_time ELSE t,
                      access_count |-> IF "access_count" \in DOMAIN data
                                       THEN data.access_count ELSE 0 ]]

\* The index file: absent (Absent), or its text (what json.load makes of it).
Garbage == [kind |-> "garbage"]

\* json.dump of {hash: metadata.to_dict()}.
json_dump_index(index) ==
    [kind |-> "json", records |-> [i \in 1..Len(index) |-> to_dict(index[i])]]

\* The position of a key in the index (0: not in it).
IndexOf(index, hash_val) ==
    FetchOne({i \in 1..Len(index) : index[i].hash = hash_val})

InIndex(index, hash_val) == IndexOf(index, hash_val) # 0

\* _load_index over the records of the file: [index, raised].  KeyError is
\* caught where it happens, with what was loaded before it kept.
RECURSIVE LoadRecords(_, _, _, _)
LoadRecords(records, i, index, t) ==
    IF i > Len(records) THEN [index |-> index, raised |-> FALSE]
    ELSE LET r == from_dict(records[i], t) IN
         IF r.err = "KeyError" THEN [index |-> index, raised |-> FALSE]
         ELSE IF r.err # None THEN [index |-> index, raised |-> TRUE]
         ELSE LoadRecords(records, i + 1, Append(index, r.value), t)

\* _load_index: [index, raised].
load_index(file, t) ==
    IF file.kind = "absent" THEN [index |-> <<>>, raised |-> FALSE]
    ELSE IF file.kind = "garbage" THEN [index |-> <<>>, raised |-> FALSE]
    ELSE LoadRecords(file.records, 1, <<>>, t)

\* _save_index.
save_index(c) == [c EXCEPT !.file = json_dump_index(c.index)]

\* _update_access_time.
update_access_time(c, hash_val, t) ==
    LET i == IndexOf(c.index, hash_val) IN
    IF i = 0 THEN c
    ELSE [c EXCEPT !.index[i].access_time = t,
                   !.index[i].access_count = c.index[i].access_count + 1]

\* del self.artifact_index[hash_val]
del_index(c, hash_val) ==
    [c EXCEPT !.index = RemoveAt(c.index, IndexOf(c.index, hash_val))]

\* Path.unlink on the content and the metadata file of a key.
Without(f, k) == [x \in DOMAIN f \ {k} |-> f[x]]

unlink_files(c, hash_val) ==
    [c EXCEPT !.content = Without(c.content, hash_val),
              !.meta = c.meta \ {hash_val}]

RECURSIVE get_cache_size(_)
get_cache_size(index) ==
    IF index = <<>> THEN 0 ELSE Head(index).size + get_cache_size(Tail(index))

\* The sort key, were it (access_time, access_count).
SortKeyLE_count_ascending(a, b) ==
    \/ a.access_time < b.access_time
    \/ a.access_time = b.access_time /\ a.access_count <= b.access_count

\* The sort key of _cleanup: (access_time, -access_count).
SortKeyLE(a, b) ==
    \/ a.access_time < b.access_time
    \/ a.access_time = b.access_time /\ a.access_count >= b.access_count

\* list.sort is stable: an item goes behind the items whose key is not
\* greater than its own.
RECURSIVE sort_by_access(_)
sort_by_access(items) ==
    IF items = <<>> THEN <<>>
    ELSE LET m == items[Len(items)]
             sorted == sort_by_access(SubSeq(items, 1, Len(items) - 1))
             n == Cardinality({i \in 1..Len(sorted) : SortKeyLE(sorted[i], m)})
         IN  SubSeq(sorted, 1, n) \o <<m>> \o SubSeq(sorted, n + 1, Len(sorted))

\* The loop of _cleanup: unlink and forget until the size is in the target.
RECURSIVE Evict(_, _, _, _)
Evict(c, candidates, current_size, target_size) ==
    IF candidates = <<>> \/ current_size <= target_size THEN c
    ELSE LET m == Head(candidates) IN
         Evict(del_index(unlink_files(c, m.hash), m.hash), Tail(candidates),
               current_size - m.size, target_size)

\* _cleanup(required_space).
cache_cleanup(c, required_space) ==
    LET current_size == get_cache_size(c.index)
        target_size == MaxSizeBytes - required_space
    IN  IF MaxSizeBytes = 0 THEN c
        ELSE IF current_size <= target_size THEN c
        ELSE save_index(Evict(c, sort_by_access(c.index), current_size, target_size))

\* put that leaves a half-copied blob in place and records it.
put_keeps_partial(c, file, artifact_type, fault, t) ==
    LET file_hash == compute_hash(Data(file))
        file_size == Len(Data(file))
        c1 == cache_cleanup(c, file_size)
        bytes == IF fault = "copy" THEN SubSeq(Data(file), 1, file_size - 1)
                 ELSE Data(file)
        copied == [c1 EXCEPT !.content = (file_hash :> bytes) @@ c1.content]
        metadata == ArtifactMetadata(file_hash, file, artifact_type, file_size, t)
        recorded == [copied EXCEPT !.meta = copied.meta \cup {file_hash},
                                   !.index = Append(copied.index, metadata)]
    IN  IF InIndex(c.index, file_hash)
        THEN [c |-> update_access_time(c, file_hash, t), result |-> file_hash,
              raised |-> FALSE, fresh |-> FALSE]
        ELSE IF fault = "metadata"
        THEN [c |-> unlink_files(copied, file_hash), result |-> None,
              raised |-> TRUE, fresh |-> FALSE]
        ELSE [c |-> save_index(recorded), result |-> file_hash,
              raised |-> FALSE, fresh |-> TRUE]

\* put: [c, result, raised, fresh].  fault is the OSError met: "copy" in
\* shutil.copy2 / chmod, "metadata" in writing <key>.json.
put(c, file, artifact_type, fault, t) ==
    LET file_hash == compute_hash(Data(file))
        file_size == Len(Data(file))
        c1 == cache_cleanup(c, file_size)
        copied == [c1 EXCEPT !.content = (file_hash :> Data(file)) @@ c1.content]
        metadata == ArtifactMetadata(file_hash, file, artifact_type, file_size, t)
        recorded == [copied EXCEPT !.meta = copied.meta \cup {file_hash},
                                   !.index = Append(copied.index, metadata)]
    IN  IF InIndex(c.index, file_hash)
        THEN [c |-> update_access_time(c, file_hash, t), result |-> file_hash,
              raised |-> FALSE, fresh |-> FALSE]
        ELSE IF fault = "copy"
        THEN [c |-> unlink_files(c1, file_hash), result |-> None,
              raised |-> TRUE, fresh |-> FALSE]
        ELSE IF fault = "metadata"
        THEN [c |-> unlink_files(copied, file_hash), result |-> None,
              raised |-> TRUE, fresh |-> FALSE]
        ELSE [c |-> save_index(recorded), result |-> file_hash,
              raised |-> FALSE, fresh |-> TRUE]

\* get: [c, result, data]; data is what is read at the path returned.
get(c, hash_val, output_path, copy_ok, t) ==
    LET c1 == save_index(update_access_time(c, hash_val, t)) IN
    IF ~InIndex(c.index, hash_val)
    THEN [c |-> c, result |-> None, data |-> <<>>]
    ELSE IF hash_val \notin DOMAIN c1.content
    THEN [c |-> save_index(del_index(c1, hash_val)), result |-> None, data |-> <<>>]
    ELSE IF output_path # None
    THEN IF copy_ok
         THEN [c |-> c1, result |-> output_path, data |-> c1.content[hash_val]]
         ELSE [c |-> c1, result |-> None, data |-> <<>>]
    ELSE [c |-> c1, result |-> "content/" \o hash_val, data |-> c1.content[hash_val]]

\* contains: [c, result].
contains(c, hash_val) ==
    IF ~InIndex(c.index, hash_val) THEN [c |-> c, result |-> FALSE]
    ELSE IF hash_val \notin DOMAIN c.content
    THEN [c |-> save_index(del_index(c, hash_val)), result |-> FALSE]
    ELSE [c |-> c, result |-> TRUE]

\* remove: [c, result].  fault is the unlink that raises OSError.
remove(c, hash_val, fault) ==
    IF ~InIndex(c.index, hash_val) THEN [c |-> c, result |-> FALSE]
    ELSE IF fault = "content" /\ hash_val \in DOMAIN c.content
    THEN [c |-> c, result |-> FALSE]
    ELSE IF fault = "metadata" /\ hash_val \in c.meta
    THEN [c |-> [c EXCEPT !.content = Without(c.content, hash_val)],
          result |-> FALSE]
    ELSE [c |-> save_index(del_index(unlink_files(c, hash_val), hash_val)),
          result |-> TRUE]

\* clear.
RECURSIVE RemoveAll(_, _)
RemoveAll(c, keys) ==
    IF keys = <<>> THEN c
    ELSE RemoveAll(remove(c, Head(keys).hash, "none").c, Tail(keys))

clear(c) == save_index([RemoveAll(c, c.index) EXCEPT !.index = <<>>])

\* verify_integrity: [c, valid, invalid].
RECURSIVE VerifyItems(_, _, _, _)
VerifyItems(c, items, valid_count, invalid_count) ==
    IF items = <<>>
    THEN [c |-> save_index(c), valid |-> valid_count, invalid |-> invalid_count]
    ELSE LET hash_val == Head(items).hash IN
         IF hash_val \notin DOMAIN c.content
         THEN VerifyItems(del_index(c, hash_val), Tail(items),
                          valid_count, invalid_count + 1)
         ELSE IF compute_hash(c.content[hash_val]) # hash_val
         THEN VerifyItems(remove(c, hash_val, "none").c, Tail(items),
                          valid_count, invalid_count + 1)
         ELSE VerifyItems(c, Tail(items), valid_count + 1, invalid_count)

verify_integrity(c) == VerifyItems(c, c.index, 0, 0)

(***************************************************************************)
(* SpecCache: one process using one cache directory, call after call, with *)
(* the directory open to the operator (a content file lost, the index file *)
(* damaged) between the calls.                                             *)
(***************************************************************************)
\* The cache clock stops at MaxCacheClock: no call that stamps an entry
\* starts after it.
MaxCacheClock == 4

TheCache ==
    [ index |-> artifact_index, file |-> index_file, content |-> content,
      meta |-> metadata_files ]

SetCache(c) ==
    /\ artifact_index' = c.index
    /\ index_file' = c.file
    /\ content' = c.content
    /\ metadata_files' = c.meta

\* A cache object exists: the constructor did not raise.
Opened == ~(cret.op = "open" /\ cret.raised)

\* ContentAddressableCache(cache_dir): a new object over the directory.
CacheOpen ==
    /\ LET r == load_index(index_file, ctime) IN
       /\ artifact_index' = IF r.raised THEN <<>> ELSE r.index
       /\ cret' = [NoCacheCall EXCEPT !.raised = r.raised]
    /\ UNCHANGED <<index_file, content, metadata_files, ctime>>

PutFaults == {"none", "copy", "metadata"}

\* cache.put(file, TEST_ARTIFACT)
CachePut(file, fault) ==
    /\ Opened
    /\ ctime < MaxCacheClock
    /\ LET r == put(TheCache, file, "TEST_ARTIFACT", fault, ctime)
           file_hash == compute_hash(Data(file))
       IN  /\ SetCache(r.c)
           /\ cret' = [NoCacheCall EXCEPT
                          !.op = "put", !.key = file_hash, !.result = r.result,
                          !.raised = r.raised, !.fresh = r.fresh,
                          !.again = /\ cret.op = "put" /\ cret.fresh
                                    /\ cret.key = file_hash]
           /\ ctime' = IF r.raised THEN ctime ELSE ctime + 1

\* cache.get(hash_val)
CacheGet(hash_val) ==
    /\ Opened
    /\ ctime < MaxCacheClock
    /\ LET r == get(TheCache, hash_val, None, TRUE, ctime) IN
       /\ SetCache(r.c)
       /\ cret' = [NoCacheCall EXCEPT !.op = "get", !.key = hash_val,
                                      !.result = r.result, !.data = r.data]
    /\ ctime' = IF InIndex(artifact_index, hash_val) THEN ctime + 1 ELSE ctime

\* cache.contains(hash_val)
CacheContains(hash_val) ==
    /\ Opened
    /\ LET r == contains(TheCache, hash_val) IN
       /\ SetCache(r.c)
       /\ cret' = [NoCacheCall EXCEPT !.op = "contains",
                                      !.result = JsonBool(r.result)]
    /\ UNCHANGED ctime

RemoveFaults == {"none", "content", "metadata"}

\* cache.remove(hash_val)
CacheRemove(hash_val, fault) ==
    /\ Opened
    /\ LET r == remove(TheCache, hash_val, fault) IN
       /\ SetCache(r.c)
       /\ cret' = [NoCacheCall EXCEPT !.op = "remove",
                                      !.result = JsonBool(r.result)]
    /\ UNCHANGED ctime

\* cache.clear()
CacheClear ==
    /\ Opened
    /\ SetCache(clear(TheCache))
    /\ cret' = [NoCacheCall EXCEPT !.op = "clear"]
    /\ UNCHANGED ctime

\* cache.verify_integrity()
CacheVerifyIntegrity ==
    /\ Opened
    /\ SetCache(verify_integrity(TheCache).c)
    /\ cret' = [NoCacheCall EXCEPT !.op = "verify_integrity"]
    /\ UNCHANGED ctime

\* A content file disappears from the directory (the case get, contains and
\* verify_integrity repair).
LoseContent(hash_val) ==
    /\ hash_val \in DOMAIN content
    /\ content' = Without(content, hash_val)
    /\ cret' = [NoCacheCall EXCEPT !.op = "external"]
    /\ UNCHANGED <<artifact_index, index_file, metadata_files, ctime>>

Damages == {"unparseable", "missing_type", "missing_field", "unknown_field",
            "unknown_type"}

Damaged(data, how) ==
    CASE how = "missing_type" -> [f \in DOMAIN data \ {"type"} |-> data[f]]
      [] how = "missing_field" -> [f \in DOMAIN data \ {"size"} |-> data[f]]
      [] how = "unknown_field" -> ("checksum" :> data.hash) @@ data
      [] how = "unknown_type" -> [data EXCEPT !.type = "iso_image"]

\* The index file is damaged on disk: cut short, or one record of it altered.
CorruptIndex(how, i) ==
    /\ index_file.kind = "json"
    /\ index_file = json_dump_index(artifact_index)
    /\ i \in 1..Len(index_file.records)
    /\ index_file' = IF how = "unparseable" THEN Garbage
                     ELSE [index_file EXCEPT
                             !.records[i] = Damaged(index_file.records[i], how)]
    /\ cret' = [NoCacheCall EXCEPT !.op = "external"]
    /\ UNCHANGED <<artifact_index, content, metadata_files, ctime>>

NextCache ==
    \/ CacheOpen /\ UNCHANGED besidesCache
    \/ \E file \in SourceFiles, fault \in PutFaults :
           CachePut(file, fault) /\ UNCHANGED besidesCache
    \/ \E hash_val \in Keys : CacheGet(hash_val) /\ UNCHANGED besidesCache
    \/ \E hash_val \in Keys :
           CacheContains(hash_val) /\ UNCHANGED besidesCache
    \/ \E hash_val \in Keys, fault \in RemoveFaults :
           CacheRemove(hash_val, fault) /\ UNCHANGED besidesCache
    \/ CacheClear /\ UNCHANGED besidesCache
    \/ CacheVerifyIntegrity /\ UNCHANGED besidesCache
    \/ \E hash_val \in Keys : LoseContent(hash_val) /\ UNCHANGED besidesCache

\* One command line is as good as another for the cache.
InitCache == Init /\ args = CHOOSE c \in Configs : TRUE

SpecCache == InitCache /\ [][NextCache]_vars

\* SpecCacheOpen: a cache directory that is filled, damaged by hand and
\* opened again.
NextCacheOpen ==
    \/ CacheOpen /\ UNCHANGED besidesCache
    \/ \E file \in SourceFiles, fault \in PutFaults :
           CachePut(file, fault) /\ UNCHANGED besidesCache
    \/ \E how \in Damages, i \in 1..Cardinality(Keys) :
           CorruptIndex(how, i) /\ UNCHANGED besidesCache

SpecCacheOpen == InitCache /\ [][NextCacheOpen]_vars

(***************************************************************************)
(* Properties of the cache.                                                *)
(***************************************************************************)
Entry(hash_val) == artifact_index[IndexOf(artifact_index, hash_val)]

\* The content files that hold the bytes of a key.
ContentFilesOf(hash_val) ==
    {name \in DOMAIN content : compute_hash(content[name]) = hash_val}

\* C12: two put calls on files with identical bytes return the same key,
\* leave exactly one content file and leave the entry's access_count at 2.
C12_DedupPut ==
    cret.op = "put" /\ cret.again /\ ~cret.raised =>
        /\ cret.result = cret.key
        /\ InIndex(artifact_index, cret.key)
        /\ Cardinality(ContentFilesOf(cret.key)) = 1
        /\ Entry(cret.key).access_count = 2

CacheOps == {"put", "get", "contains", "remove", "clear", "verify_integrity"}

\* C13: when a cache operation that changed the index returns, the index
\* file on disk equals the in-memory index.
C13_IndexFlushed ==
    [][cret'.op \in CacheOps /\ ~cret'.raised
       /\ artifact_index' # artifact_index
           => index_file' = json_dump_index(artifact_index')]_vars

\* C14: every index entry whose content file is there names content that
\* hashes to its key, and what get(key) returns hashes to key.
C14_ContentAddressed ==
    /\ \A i \in 1..Len(artifact_index) :
           LET hash_val == artifact_index[i].hash IN
           hash_val \in DOMAIN content =>
               compute_hash(content[hash_val]) = hash_val
    /\ cret.op = "get" /\ cret.result # None => compute_hash(cret.data) = cret.key

\* A get that returned an artifact put twice, with another one in the cache.
C14_Witness ==
    /\ cret.op = "get" /\ cret.result # None
    /\ Entry(cret.key).access_count >= 2
    /\ Len(artifact_index) >= 2

\* The index file cannot be loaded: it does not parse, or a record of it
\* does not make an ArtifactMetadata.
Unloadable(file) ==
    \/ file.kind = "garbage"
    \/ /\ file.kind = "json"
       /\ \E i \in 1..Len(file.records) : from_dict(file.records[i], 0).err # None

\* C18: opening a cache whose index file cannot be loaded does not fail: the
\* cache starts with an empty in-memory index and the content files stay.
C18_OpenSurvivesBadIndex ==
    [][cret'.op = "open" /\ Unloadable(index_file) =>
          /\ ~cret'.raised
          /\ artifact_index' = <<>>
          /\ content' = content]_vars

(***************************************************************************)
(* SpecParallelPut: TestArtifactCache.cache_directory hands one file to    *)
(* each thread of a ThreadPoolExecutor and every thread runs put on the    *)
(* shared cache.  put takes no lock: its statements interleave.  A thread  *)
(* is [pc, file, result]; pc is the statement of put it is about to run.   *)
(***************************************************************************)
KeyOf(t) == compute_hash(Data(threads[t].file))

Goto(t, label) == threads' = [threads EXCEPT ![t].pc = label]

\* executor.submit(self.cache_artifact, file_path, ...) for each file found.
Submit(f1, f2) ==
    /\ threads = NoThreads
    /\ f1 # f2
    /\ threads' = [threads EXCEPT !["t1"] = [pc |-> "check", file |-> f1, result |-> None],
                                  !["t2"] = [pc |-> "check", file |-> f2, result |-> None]]
    /\ UNCHANGED <<artifact_index, index_file, content, metadata_files>>

\* if file_hash in self.artifact_index: _update_access_time; return file_hash
PutCheck(t) ==
    /\ threads[t].pc = "check"
    /\ IF InIndex(artifact_index, KeyOf(t))
       THEN /\ artifact_index' = update_access_time(TheCache, KeyOf(t), ctime).index
            /\ threads' = [threads EXCEPT ![t].pc = "done", ![t].result = KeyOf(t)]
       ELSE /\ Goto(t, "cleanup")
            /\ UNCHANGED artifact_index
    /\ UNCHANGED <<index_file, content, metadata_files>>

\* self._cleanup(required_space=file_size)
PutCleanup(t) ==
    /\ threads[t].pc = "cleanup"
    /\ SetCache(cache_cleanup(TheCache, Len(Data(threads[t].file))))
    /\ Goto(t, "copy")

\* shutil.copy2 and chmod to read-only.  Opening a read-only blob that is
\* already there for writing is refused unless the process is privileged.
PutCopy(t, privileged) ==
    /\ threads[t].pc = "copy"
    /\ IF KeyOf(t) \in DOMAIN content /\ ~privileged
       THEN /\ Goto(t, "except")
            /\ UNCHANGED content
       ELSE /\ content' = (KeyOf(t) :> Data(threads[t].file)) @@ content
            /\ Goto(t, "metadata")
    /\ UNCHANGED <<artifact_index, index_file, metadata_files>>

\* json.dump(metadata.to_dict()) to metadata/<hash>.json
PutMetadata(t) ==
    /\ threads[t].pc = "metadata"
    /\ metadata_files' = metadata_files \cup {KeyOf(t)}
    /\ Goto(t, "index")
    /\ UNCHANGED <<artifact_index, index_file, content>>

\* self.artifact_index[file_hash] = metadata
PutIndex(t) ==
    /\ threads[t].pc = "index"
    /\ LET file == threads[t].file
           metadata == ArtifactMetadata(KeyOf(t), file, "TEST_ARTIFACT",
                                        Len(Data(file)), ctime)
           i == IndexOf(artifact_index, KeyOf(t))
       IN  artifact_index' = IF i = 0 THEN Append(artifact_index, metadata)
                             ELSE [artifact_index EXCEPT ![i] = metadata]
    /\ Goto(t, "save")
    /\ UNCHANGED <<index_file, content, metadata_files>>

\* self._save_index(); return file_hash
PutSave(t) ==
    /\ threads[t].pc = "save"
    /\ index_file' = json_dump_index(artifact_index)
    /\ threads' = [threads EXCEPT ![t].pc = "done", ![t].result = KeyOf(t)]
    /\ UNCHANGED <<artifact_index, content, metadata_files>>

\* except (OSError, IOError): unlink what is there of the blob and its
\* metadata; raise.
PutExcept(t) ==
    /\ threads[t].pc = "except"
    /\ SetCache(unlink_files(TheCache, KeyOf(t)))
    /\ Goto(t, "raised")

NextParallelPut ==
    \/ \E f1, f2 \in SourceFiles : Submit(f1, f2) /\ UNCHANGED besidesThreads
    \/ \E t \in Threads : PutCheck(t) /\ UNCHANGED besidesThreads
    \/ \E t \in Threads : PutCleanup(t) /\ UNCHANGED besidesThreads
    \/ \E t \in Threads, privileged \in BOOLEAN :
           PutCopy(t, privileged) /\ UNCHANGED besidesThreads
    \/ \E t \in Threads : PutMetadata(t) /\ UNCHANGED besidesThreads
    \/ \E t \in Threads : PutIndex(t) /\ UNCHANGED besidesThreads
    \/ \E t \in Threads : PutSave(t) /\ UNCHANGED besidesThreads
    \/ \E t \in Threads : PutExcept(t) /\ UNCHANGED besidesThreads

SpecParallelPut == InitCache /\ [][NextParallelPut]_vars

\* future.result() has returned or raised for every file.
AllReturned == \A t \in Threads : threads[t].pc \in {"done", "raised"}

\* C15: for every interleaving of the concurrent put calls every call
\* returns its key without error, and afterwards every returned key is in
\* the index with its content file present.
C15_ParallelPutSafe ==
    AllReturned =>
        \A t \in Threads :
            /\ threads[t].pc = "done"
            /\ threads[t].result = KeyOf(t)
            /\ InIndex(artifact_index, threads[t].result)
            /\ threads[t].result \in DOMAIN content

(***************************************************************************)
(* The verified downloader and the VM image cache.  A URL serves the bytes *)
(* of one of the files, or the request fails ("error").  files is the      *)
(* downloader's part of the disk: "temp" (the temporary download file) and *)
(* "out" (output_path).                                                    *)
(***************************************************************************)
Served == {"a.txt", "b.txt", "c.txt"}

\* download: [c, files, result].  url_hash is the hash= / sha256= parameter
\* of the URL or None.
download_leaves_temp(c, files, url_hash, expected_hash, served, fault, copy_ok, t) ==
    LET file_hash == IF expected_hash # None THEN expected_hash ELSE url_hash
        hit == IF file_hash # None THEN contains(c, file_hash)
               ELSE [c |-> c, result |-> FALSE]
        cached == get(hit.c, file_hash, "out", copy_ok, t)
        staged == ("temp" :> Data(TempName(served))) @@ files
        added == put(hit.c, TempName(served), "VM_IMAGE", fault, t)
        fetched == get(added.c, added.result, "out", copy_ok, t)
    IN  IF hit.result
        THEN [c |-> cached.c,
              files |-> IF cached.result # None
                        THEN ("out" :> cached.data) @@ files ELSE files,
              result |-> cached.result # None]
        ELSE IF served = "error"
        THEN [c |-> hit.c, files |-> files, result |-> FALSE]
        ELSE IF expected_hash # None
                /\ compute_hash(staged["temp"]) # expected_hash
        THEN [c |-> hit.c, files |-> staged, result |-> FALSE]
        ELSE IF added.raised
        THEN [c |-> added.c, files |-> Without(staged, "temp"), result |-> FALSE]
        ELSE [c |-> fetched.c,
              files |-> IF fetched.result # None
                        THEN ("out" :> fetched.data) @@ Without(staged, "temp")
                        ELSE Without(staged, "temp"),
              result |-> fetched.result # None]

download(c, files, url_hash, expected_hash, served, fault, copy_ok, t) ==
    LET file_hash == IF expected_hash # None THEN expected_hash ELSE url_hash
        hit == IF file_hash # None THEN contains(c, file_hash)
               ELSE [c |-> c, result |-> FALSE]
        cached == get(hit.c, file_hash, "out", copy_ok, t)
        staged == ("temp" :> Data(TempName(served))) @@ files
        added == put(hit.c, TempName(served), "VM_IMAGE", fault, t)
        fetched == get(added.c, added.result, "out", copy_ok, t)
    IN  IF hit.result
        THEN [c |-> cached.c,
              files |-> IF cached.result # None
                        THEN ("out" :> cached.data) @@ files ELSE files,
              result |-> cached.result # None]
        ELSE IF served = "error"
        THEN [c |-> hit.c, files |-> files, result |-> FALSE]
        ELSE IF expected_hash # None
                /\ compute_hash(staged["temp"]) # expected_hash
        THEN [c |-> hit.c, files |-> Without(staged, "temp"), result |-> FALSE]
        ELSE IF added.raised
        THEN [c |-> added.c, files |-> Without(staged, "temp"), result |-> FALSE]
        ELSE [c |-> fetched.c,
              files |-> IF fetched.result # None
                        THEN ("out" :> fetched.data) @@ Without(staged, "temp")
                        ELSE Without(staged, "temp"),
              result |-> fetched.result # None]

\* The response to the request for the SHA-256 sidecar: whether it came, and
\* the lines of its body, each the tokens split() finds (text and length).
HashLine(hash_val, name) ==
    << [text |-> hash_val, len |-> 64], [text |-> name, len |-> 10] >>

SidecarBodies ==
    { <<>>,
      << <<[text |-> "SHA256", len |-> 6], [text |-> "(alpine.iso)", len |-> 12]>> >> }
    \cup { <<HashLine(hash_val, "alpine.iso")>> : hash_val \in Keys }

Sidecars ==
    { [ok |-> FALSE, lines |-> <<>>] }
    \cup { [ok |-> TRUE, lines |-> body] : body \in SidecarBodies }

\* The first line whose first token is 64 characters long gives the hash.
RECURSIVE parse_sha256(_)
parse_sha256(lines) ==
    IF lines = <<>> THEN None
    ELSE IF Len(Head(lines)) >= 1 /\ Head(lines)[1].len = 64
    THEN Head(lines)[1].text
    ELSE parse_sha256(Tail(lines))

\* VMImageCache.get_vm_image with a sidecar URL: [c, files, result].
get_vm_image(c, files, sidecar, served, fault, copy_ok, t) ==
    LET expected_hash == IF ~sidecar.ok THEN None ELSE parse_sha256(sidecar.lines)
    IN  download(c, files, None, expected_hash, served, fault, copy_ok, t)

\* VMManager.setup: [c, files, result].  tools_ok: _check_requirements;
\* later_ok: qemu-img create and the VM network came out well.
vm_manager_setup(c, files, tools_ok, sidecar, served, fault, copy_ok, later_ok, t) ==
    LET image == get_vm_image(c, files, sidecar, served, fault, copy_ok, t) IN
    IF ~tools_ok THEN [c |-> c, files |-> files, result |-> FALSE]
    ELSE IF ~image.result THEN image
    ELSE [image EXCEPT !.result = later_ok]

\* A behaviour of SpecDownload makes at most MaxDownloads downloads.
MaxDownloads == 2

\* What the URL served, as bytes (none when the request failed).
Body(served) == IF served = "error" THEN <<>> ELSE Data(served)

\* CachedDownloader(cache).download(url, out, expected_hash=...)
Download(url_hash, expected_hash, served, fault, copy_ok) ==
    /\ Opened
    /\ ctime < MaxDownloads
    /\ LET r == download(TheCache, dl_files, url_hash, expected_hash, served,
                         fault, copy_ok, ctime) IN
       /\ SetCache(r.c)
       /\ dl_files' = r.files
       /\ cret' = [NoCacheCall EXCEPT !.op = "download", !.key = expected_hash,
                                      !.result = JsonBool(r.result),
                                      !.data = Body(served)]
    /\ ctime' = ctime + 1

\* VMManager(root).setup(), the image going to <root>/vm/ ("out").
VmManagerSetup(tools_ok, sidecar, served, fault, copy_ok, later_ok) ==
    /\ Opened
    /\ ctime < MaxDownloads
    /\ LET r == vm_manager_setup(TheCache, dl_files, tools_ok, sidecar, served,
                                 fault, copy_ok, later_ok, ctime) IN
       /\ SetCache(r.c)
       /\ dl_files' = r.files
       /\ cret' = [NoCacheCall EXCEPT
                      !.op = "vm_setup",
                      !.key = IF ~sidecar.ok THEN None
                              ELSE parse_sha256(sidecar.lines),
                      !.result = JsonBool(r.result),
                      !.data = Body(served)]
    /\ ctime' = ctime + 1

NextDownload ==
    \/ \E url_hash, expected_hash \in Keys \cup {None},
          served \in Served \cup {"error"}, fault \in PutFaults, copy_ok \in BOOLEAN :
           /\ expected_hash # None => url_hash = None
           /\ Download(url_hash, expected_hash, served, fault, copy_ok)
           /\ UNCHANGED besidesDownload
    \/ \E tools_ok, copy_ok, later_ok \in BOOLEAN, sidecar \in Sidecars,
          served \in Served \cup {"error"}, fault \in PutFaults :
           VmManagerSetup(tools_ok, sidecar, served, fault, copy_ok, later_ok)
           /\ UNCHANGED besidesDownload
    \/ \E hash_val \in Keys :
           LoseContent(hash_val) /\ UNCHANGED <<besidesDownload, dl_files>>

SpecDownload == InitCache /\ [][NextDownload]_vars

IndexKeys(index) == {index[i].hash : i \in 1..Len(index)}

OutFile(files) == IF "out" \in DOMAIN files THEN files["out"] ELSE <<>>

\* C16: when the SHA-256 sidecar is missing (it cannot be fetched or holds no
\* 64-character token) VM setup fails, and no unverified image is written
\* to <root>/vm/ or committed to the cache.
C16_NoSidecarNoImage ==
    [][cret'.op = "vm_setup" /\ cret'.key = None =>
          /\ cret'.result = JsonBool(FALSE)
          /\ dl_files' = dl_files
          /\ IndexKeys(artifact_index') \subseteq IndexKeys(artifact_index)]_vars

\* The download went to the network and the bytes served do not hash to
\* the expected hash.
Mismatch ==
    /\ cret'.op = "download" /\ cret'.key # None
    /\ ~contains(TheCache, cret'.key).result
    /\ cret'.data # <<>>
    /\ compute_hash(cret'.data) # cret'.key

\* C17: a download whose bytes do not hash to expected_hex returns failure,
\* adds no artifact to the index, copies nothing to out_path and removes the
\* temporary file; the temporary file is absent after every download.
C17_VerifiedDownload ==
    [][/\ Mismatch =>
             /\ cret'.result = JsonBool(FALSE)
             /\ IndexKeys(artifact_index') \subseteq IndexKeys(artifact_index)
             /\ OutFile(dl_files') = OutFile(dl_files)
       /\ cret'.op = "download" => "temp" \notin DOMAIN dl_files']_vars

\* A mismatching download into a cache that holds an artifact and an
\* earlier output.
C17_Witness ==
    /\ cret.op = "download" /\ cret.key # None /\ cret.data # <<>>
    /\ compute_hash(cret.data) # cret.key
    /\ cret.result = JsonBool(FALSE)
    /\ Len(artifact_index) >= 1
    /\ "out" \in DOMAIN dl_files

(***************************************************************************)
(* Traffic shaping on Linux (safespace/network.py): the tc commands the    *)
(* NetworkIsolation object issues and what the kernel makes of them.  A tc *)
(* command gives [host, rc]; runs is FALSE when the command fails for a    *)
(* reason of its own (sudo, the namespace, tc itself).                     *)
(***************************************************************************)
\* tc qdisc add dev veth1 root <kind> <args>: refused when a root qdisc is
\* attached already (File exists).
tc_qdisc_add(h, kind, qargs, runs) ==
    IF runs /\ h.qdisc.kind = "none"
    THEN [host |-> [h EXCEPT !.qdisc = [kind |-> kind, args |-> qargs]], rc |-> 0]
    ELSE [host |-> h, rc |-> 2]

\* tc qdisc change dev veth1 root <kind> <args>: the root qdisc must be of
\* that kind; its parameters are replaced.
tc_qdisc_change(h, kind, qargs, runs) ==
    IF runs /\ h.qdisc.kind = kind
    THEN [host |-> [h EXCEPT !.qdisc.args = qargs], rc |-> 0]
    ELSE [host |-> h, rc |-> 2]

\* tc qdisc del dev veth1 root: refused when no root qdisc is attached.
tc_qdisc_del(h, runs) ==
    IF runs /\ h.qdisc.kind # "none"
    THEN [host |-> [h EXCEPT !.qdisc = NoQdisc], rc |-> 0]
    ELSE [host |-> h, rc |-> 2]

\* f"{x}%" of a float that holds a whole number.
Percent(x) == ToString(x) \o ".0%"

\* The commands of one call, by name; at most one of them fails on its own.
TcCommands == {"reset_del", "reset_add", "add_netem", "change_netem",
               "del_netem", "add_tbf"}

\* reset_network_conditions, were it to report a tc command's failure.
reset_reports_failure(n, h, failing) ==
    LET deleted == tc_qdisc_del(h, failing # "reset_del")
        fifo == tc_qdisc_add(deleted.host, "pfifo", <<>>, failing # "reset_add")
    IN  IF ~n.current_conditions_active
        THEN [net |-> n, host |-> h, result |-> TRUE]
        ELSE IF deleted.rc # 0 \/ fifo.rc # 0
        THEN [net |-> n, host |-> fifo.host, result |-> FALSE]
        ELSE [net |-> [n EXCEPT !.current_conditions_active = FALSE],
              host |-> fifo.host, result |-> TRUE]

\* reset_network_conditions on Linux: [net, host, result].
reset_network_conditions(n, h, failing) ==
    LET deleted == tc_qdisc_del(h, failing # "reset_del").host
        fifo == tc_qdisc_add(deleted, "pfifo", <<>>, failing # "reset_add").host
    IN  IF ~n.current_conditions_active
        THEN [net |-> n, host |-> h, result |-> TRUE]
        ELSE [net |-> [n EXCEPT !.current_conditions_active = FALSE],
              host |-> fifo, result |-> TRUE]

\* The arguments of the netem change command.
netem_args(n) ==
    (IF n.latency # ""
     THEN <<"delay", n.latency>> \o (IF n.jitter # "" THEN <<n.jitter>> ELSE <<>>)
     ELSE <<>>)
    \o (IF n.packet_loss > 0 THEN <<"loss", Percent(n.packet_loss)>> ELSE <<>>)
    \o (IF n.packet_corruption > 0
        THEN <<"corrupt", Percent(n.packet_corruption)>> ELSE <<>>)
    \o (IF n.packet_reordering > 0
        THEN <<"reorder", Percent(n.packet_reordering)>> ELSE <<>>)

\* _setup_linux_network_conditions: [net, host, result].
setup_linux_network_conditions(n, h, failing) ==
    LET added == tc_qdisc_add(h, "netem", <<>>, failing # "add_netem")
        changed == tc_qdisc_change(added.host, "netem", netem_args(n),
                                   failing # "change_netem")
        deleted == tc_qdisc_del(changed.host, failing # "del_netem")
        limited == tc_qdisc_add(deleted.host, "tbf",
                                <<"rate", n.bandwidth, "burst", "32kbit",
                                  "latency", "400ms">>,
                                failing # "add_tbf")
        active == [n EXCEPT !.current_conditions_active = TRUE]
    IN  IF added.rc # 0 THEN [net |-> n, host |-> added.host, result |-> FALSE]
        ELSE IF changed.rc # 0
        THEN [net |-> n, host |-> changed.host, result |-> FALSE]
        ELSE IF n.bandwidth = ""
        THEN [net |-> active, host |-> changed.host, result |-> TRUE]
        ELSE IF limited.rc # 0
        THEN [net |-> n, host |-> limited.host, result |-> FALSE]
        ELSE [net |-> active, host |-> limited.host, result |-> TRUE]

\* "if x is not None: self.x = x" for every argument given.
with_args(n, given) ==
    [f \in DOMAIN n |-> IF f \in DOMAIN given THEN given[f] ELSE n[f]]

\* setup_network_conditions: [net, host, result].
setup_network_conditions(n, h, given, failing) ==
    LET n1 == [with_args(n, given) EXCEPT !.simulate_conditions = TRUE]
        cleared == reset_network_conditions(n1, h, failing)
    IN  setup_linux_network_conditions(cleared.net, cleared.host, failing)

\* update_network_conditions: [net, host, result].
update_network_conditions(n, h, given, failing) ==
    LET n1 == with_args(n, given) IN
    IF n1.current_conditions_active
    THEN setup_network_conditions(n1, h, NoArgs, failing)
    ELSE [net |-> n1, host |-> h, result |-> FALSE]

(***************************************************************************)
(* SpecShaping: calls on one NetworkIsolation object whose namespace is    *)
(* set up, on Linux, against the kernel's qdisc of veth1.                  *)
(***************************************************************************)
\* The keyword arguments a caller gives; an argument left out is None.
GivenArgs ==
    { NoArgs,
      [latency |-> "100ms", jitter |-> "20ms", packet_loss |-> 10],
      [bandwidth |-> "1mbit"],
      [bandwidth |-> ""],
      [packet_loss |-> 0, jitter |-> ""] }

Failing == {"none"} \cup TcCommands

SetNetwork(r, op, given, failing) ==
    /\ netiso' = r.net
    /\ host' = r.host
    /\ ncall' = [op |-> op, args |-> given, failing |-> failing,
                 result |-> r.result,
                 after |-> IF op = "reset_network_conditions"
                           THEN [op |-> ncall.op, result |-> ncall.result,
                                 active |-> netiso.current_conditions_active]
                           ELSE NoneBefore]

SetupNetworkConditions(given, failing) ==
    SetNetwork(setup_network_conditions(netiso, host, given, failing),
               "setup_network_conditions", given, failing)

UpdateNetworkConditions(given, failing) ==
    SetNetwork(update_network_conditions(netiso, host, given, failing),
               "update_network_conditions", given, failing)

ResetNetworkConditions(failing) ==
    /\ failing \in {"none", "reset_del", "reset_add"}
    /\ SetNetwork(reset_network_conditions(netiso, host, failing),
                  "reset_network_conditions", NoArgs, failing)

NextShaping ==
    \/ \E given \in GivenArgs, failing \in Failing :
           SetupNetworkConditions(given, failing) /\ UNCHANGED besidesNetwork
    \/ \E given \in GivenArgs, failing \in Failing :
           UpdateNetworkConditions(given, failing) /\ UNCHANGED besidesNetwork
    \/ \E failing \in Failing :
           ResetNetworkConditions(failing) /\ UNCHANGED besidesNetwork

SpecShaping == InitCache /\ [][NextShaping]_vars

\* The settings are the defaults but for what the scenario's call gave.
ScenarioArgs == [latency |-> "100ms", jitter |-> "20ms", packet_loss |-> 10]

ScenarioSetupDone ==
    /\ ncall.op = "setup_network_conditions"
    /\ ncall.args = ScenarioArgs
    /\ ncall.result
    /\ netiso = [with_args(NetworkIsolation(NetworkSettings), ScenarioArgs)
                 EXCEPT !.simulate_conditions = TRUE,
                        !.current_conditions_active = TRUE]

\* C19: on Linux with the default settings, after a successful
\* setup_network_conditions(latency="100ms", jitter="20ms", packet_loss=10.0)
\* without a bandwidth argument the root qdisc of veth1 is netem with
\* delay 100ms 20ms and loss 10%; after a reset_network_conditions that
\* follows it the root qdisc is pfifo and active is false.
C19_ScenarioShapes ==
    [][ /\ (ScenarioSetupDone' =>
              /\ host'.qdisc.kind = "netem"
              /\ host'.qdisc.args
                   = <<"delay", "100ms", "20ms", "loss", Percent(10)>>)
        /\ (ScenarioSetupDone /\ ncall'.op = "reset_network_conditions"
                /\ ncall'.failing = "none" =>
              /\ host'.qdisc.kind = "pfifo"
              /\ ~netiso'.current_conditions_active) ]_vars

\* C20: a setup_network_conditions that fails part-way leaves no qdisc it
\* added on the interface, and a later setup_network_conditions whose
\* commands all run succeeds.
C20_FailedSetupCleansUp ==
    [][ /\ (ncall'.op = "setup_network_conditions" /\ ~ncall'.result =>
              \/ host'.qdisc.kind \notin {"netem", "tbf"}
              \/ host'.qdisc = host.qdisc)
        /\ (ncall.op = "setup_network_conditions" /\ ~ncall.result
                /\ ncall'.op = "setup_network_conditions"
                /\ ncall'.failing = "none" =>
              ncall'.result) ]_vars

\* get_current_network_conditions: the Conditions record with "active".
get_current_network_conditions(n) ==
    [ active |-> n.current_conditions_active,
      simulate_conditions |-> n.simulate_conditions,
      latency |-> n.latency, jitter |-> n.jitter,
      packet_loss |-> n.packet_loss,
      packet_corruption |-> n.packet_corruption,
      packet_reordering |-> n.packet_reordering,
      bandwidth |-> n.bandwidth ]

\* C21: a reset_network_conditions that follows a setup_network_conditions,
\* whether that setup succeeded or failed, returns success and leaves
\* get_current_network_conditions().active false.
C21_ResetAfterSetup ==
    ncall.op = "reset_network_conditions"
        /\ ncall.after.op = "setup_network_conditions" =>
    /\ ncall.result
    /\ ~get_current_network_conditions(netiso).active

\* A reset whose tc del was refused, after a setup that had succeeded.
C21_Witness ==
    /\ ncall.op = "reset_network_conditions"
    /\ ncall.after.op = "setup_network_conditions"
    /\ ncall.after.result
    /\ ncall.failing = "reset_del"
    /\ ncall.result
    /\ ~get_current_network_conditions(netiso).active

\* C22: update_network_conditions called while conditions are active, its
\* commands all running, returns true and leaves active true and the
\* Conditions record equal to the previous one overridden by the arguments
\* given; called while not active it returns false and leaves the qdisc
\* alone.
C22_UpdateWhileActive ==
    [][ ncall'.op = "update_network_conditions" =>
          /\ (netiso.current_conditions_active /\ ncall'.failing = "none" =>
                /\ ncall'.result
                /\ netiso'.current_conditions_active
                /\ netiso' = [with_args(netiso, ncall'.args)
                                EXCEPT !.simulate_conditions = TRUE])
          /\ (~netiso.current_conditions_active =>
                ~ncall'.result /\ host' = host) ]_vars

(***************************************************************************)
(* The topology on Linux (safespace/network.py): the commands of           *)
(* _setup_linux and _cleanup_linux and what the kernel makes of them.      *)
(* Every sandbox uses the same names: safespace_net, veth0, veth1.         *)
(***************************************************************************)
SetupCommands ==
    << "netns_add", "link_add", "link_set_netns", "addr_add_host",
       "addr_add_ns", "up_host", "up_ns", "lo_up", "nat_add", "route_add",
       "ip_forward" >>

CleanupCommands == <<"nat_del", "link_del", "netns_del">>

\* The veth pair goes, and with it its addresses and the route over it.
NoVeth(h) ==
    [h EXCEPT !.veth = "none", !.moved = FALSE, !.host_addr = FALSE,
              !.ns_addr = FALSE, !.host_up = FALSE, !.ns_up = FALSE,
              !.route = FALSE]

\* _sudo_cmd on one command, issued by who: [host, rc].  runs is FALSE
\* when there is no password or sudo refuses.
sudo_cmd(h, cmd, who, runs) ==
    LET done(h2) == [host |-> h2, rc |-> 0]
        refused == [host |-> h, rc |-> 1]
    IN  IF ~runs THEN refused
        ELSE CASE cmd = "netns_add" ->
                    IF h.netns = "none" THEN done([h EXCEPT !.netns = who])
                    ELSE refused
               [] cmd = "link_add" ->
                    IF h.veth = "none" THEN done([h EXCEPT !.veth = who])
                    ELSE refused
               [] cmd = "link_set_netns" ->
                    IF h.veth # "none" /\ ~h.moved /\ h.netns # "none"
                    THEN done([h EXCEPT !.moved = TRUE]) ELSE refused
               [] cmd = "addr_add_host" ->
                    IF h.veth # "none" /\ ~h.host_addr
                    THEN done([h EXCEPT !.host_addr = TRUE]) ELSE refused
               [] cmd = "addr_add_ns" ->
                    IF h.moved /\ ~h.ns_addr
                    THEN done([h EXCEPT !.ns_addr = TRUE]) ELSE refused
               [] cmd = "up_host" ->
                    IF h.veth # "none" THEN done([h EXCEPT !.host_up = TRUE])
                    ELSE refused
               [] cmd = "up_ns" ->
                    IF h.moved THEN done([h EXCEPT !.ns_up = TRUE]) ELSE refused
               [] cmd = "lo_up" ->
                    IF h.netns # "none" THEN done([h EXCEPT !.lo_up = TRUE])
                    ELSE refused
               [] cmd = "nat_add" -> done([h EXCEPT !.nat = Append(@, who)])
               [] cmd = "route_add" ->
                    IF h.moved /\ h.ns_addr /\ h.ns_up /\ ~h.route
                    THEN done([h EXCEPT !.route = TRUE]) ELSE refused
               [] cmd = "ip_forward" -> done([h EXCEPT !.forward = TRUE])
               [] cmd = "nat_del" ->
                    IF h.nat # <<>> THEN done([h EXCEPT !.nat = Tail(@)])
                    ELSE refused
               [] cmd = "link_del" ->
                    IF h.veth # "none" THEN done(NoVeth(h)) ELSE refused
               [] cmd = "netns_del" ->
                    IF h.netns = "none" THEN refused
                    ELSE done([(IF h.moved THEN NoVeth(h) ELSE h)
                                 EXCEPT !.netns = "none", !.lo_up = FALSE])

\* _setup_linux: the commands in order, the first nonzero return code
\* ends it with False: [host, result].
RECURSIVE setup_linux_from(_, _, _, _)
setup_linux_from(h, cmds, who, failing) ==
    IF cmds = <<>> THEN [host |-> h, result |-> TRUE]
    ELSE LET r == sudo_cmd(h, Head(cmds), who, Head(cmds) # failing) IN
         IF r.rc # 0 THEN [host |-> r.host, result |-> FALSE]
         ELSE setup_linux_from(r.host, Tail(cmds), who, failing)

setup_linux(h, who, failing) == setup_linux_from(h, SetupCommands, who, failing)

\* _cleanup_linux: the three commands, their return codes ignored: [host, result].
RECURSIVE cleanup_linux_from(_, _, _)
cleanup_linux_from(h, cmds, failing) ==
    IF cmds = <<>> THEN [host |-> h, result |-> TRUE]
    ELSE cleanup_linux_from(
             sudo_cmd(h, Head(cmds), "own", Head(cmds) # failing).host,
             Tail(cmds), failing)

cleanup_linux(h, failing) == cleanup_linux_from(h, CleanupCommands, failing)

(***************************************************************************)
(* SpecTopology: one sandbox's controller and its NetworkIsolation object  *)
(* on a Linux host that another sandbox may use as well.                   *)
(***************************************************************************)
TopoCall(op, failing, result) ==
    [ op |-> op, failing |-> failing, result |-> result,
      after |-> IF op = "cleanup"
                THEN [op |-> tcall.op, result |-> tcall.result]
                ELSE NoTopoCall.after ]

SetupFailing == {"none"} \cup {SetupCommands[i] : i \in DOMAIN SetupCommands}

CleanupFailing == {"none"} \cup {CleanupCommands[i] : i \in DOMAIN CleanupCommands}

\* iptables -A appends a rule at every call: the rules on the host are
\* counted up to this many.
MaxNatRules == 2

\* env.setup_network_isolation(), NetworkIsolation.setup() included.
SetupNetworkIsolationOnHost(failing) ==
    Len(topo.nat) < MaxNatRules /\
    LET k == IF env.network_isolation THEN [host |-> topo, result |-> TRUE]
             ELSE setup_linux(topo, "own", failing)
        r == setup_network_isolation(env, fs, k.result)
    IN  /\ env' = r.env
        /\ fs' = r.fs
        /\ topo' = k.host
        /\ tcall' = TopoCall("setup_network_isolation", failing, r.result)
        /\ UNCHANGED db

\* env.network_isolation.setup(), called on the object the controller holds.
IsolationSetup(failing) ==
    /\ env.network_isolation
    /\ Len(topo.nat) < MaxNatRules
    /\ LET k == setup_linux(topo, "own", failing) IN
        /\ topo' = k.host
        /\ tcall' = TopoCall("setup", failing, k.result)
    /\ UNCHANGED <<env, fs, db>>

\* env.cleanup(), NetworkIsolation.cleanup() included where it is called.
CleanupOnHost(failing) ==
    LET r == cleanup(env, fs, db, now, FALSE, FALSE, TRUE, TRUE) IN
    /\ env' = r.env
    /\ fs' = r.fs
    /\ db' = r.db
    /\ topo' = IF FacetEnabled(env, "network")
               THEN cleanup_linux(topo, failing).host ELSE topo
    /\ tcall' = TopoCall("cleanup", failing, TRUE)

\* Another sandbox on the same host sets its network isolation up.
OtherSandboxSetup ==
    /\ [topo EXCEPT !.forward = FALSE] = NoTopology
    /\ topo' = setup_linux(topo, "foreign", "none").host
    /\ tcall' = TopoCall("other", "none", TRUE)
    /\ UNCHANGED <<env, fs, db>>

NextTopology ==
    \/ \E failing \in SetupFailing :
           SetupNetworkIsolationOnHost(failing) /\ UNCHANGED besidesTopology
    \/ \E failing \in SetupFailing :
           IsolationSetup(failing) /\ UNCHANGED besidesTopology
    \/ \E failing \in CleanupFailing :
           CleanupOnHost(failing) /\ UNCHANGED besidesTopology
    \/ OtherSandboxSetup /\ UNCHANGED besidesTopology

SpecTopology == InitCache /\ [][NextTopology]_vars

\* The topology a setup that ran through leaves on a host that had none.
Established(who) == setup_linux(NoTopology, who, "none").host

Range(seq) == {seq[i] : i \in DOMAIN seq}

\* No namespace, veth pair or NAT rule made by this sandbox is on the host.
NothingOwn(h) ==
    /\ h.netns # "own"
    /\ h.veth # "own"
    /\ "own" \notin Range(h.nat)

\* C23: NetworkIsolation.setup() called again after a successful setup,
\* its commands all able to run, succeeds and leaves the topology as the
\* first call left it.
C23_SetupIdempotent ==
    [][ topo = Established("own") /\ tcall'.op = "setup"
            /\ tcall'.failing = "none" =>
          tcall'.result /\ topo' = topo ]_vars

\* C24: when setup fails part-way, nothing this sandbox created is on the
\* host once the controller's cleanup() that follows has returned.
C24_PartialSetupUndone ==
    tcall.op = "cleanup" /\ tcall.after.op = "setup_network_isolation"
        /\ ~tcall.after.result =>
    NothingOwn(topo)

StoreIds == {"e1", "e2"}

StoreNames == {None, "alpha", "beta"}

\* db.save_environment(env_id, name, root_dir, state, metadata)
SaveEnvironment(env_id, name) ==
    /\ now < MaxClock
    /\ db' = save_environment(db, env_id, name, RootOf(env_id), StateOf(env),
                              MetadataOf(env, now), IsoTime(now))
    /\ now' = now + 1

\* db.delete_environment(env_id)
DeleteEnvironment(env_id) ==
    /\ db' = delete_environment(db, env_id)
    /\ UNCHANGED now

NextStore ==
    \/ \E env_id \in StoreIds, name \in StoreNames :
           SaveEnvironment(env_id, name) /\ UNCHANGED besidesStore
    \/ \E env_id \in StoreIds :
           DeleteEnvironment(env_id) /\ UNCHANGED besidesStore

SpecStore == InitCache /\ [][NextStore]_vars

\* C26: no two records of the State Store with different ids hold the same
\* name, where a name is set.
C26_NamesUnique ==
    \A i, j \in DOMAIN db :
        db[i].id # db[j].id /\ db[i].name # None => db[i].name # db[j].name

(***************************************************************************)
(* The container and VM managers (safespace/container.py, vm.py) and the   *)
(* runtime they drive.  perm says how the runtime can be used on the host: *)
(* "plain" by the user, "sudo" only under sudo, "never"; broken names a    *)
(* command that fails however it is run ("none": no such command).         *)
(***************************************************************************)
ContainerScripts == {"run_container.sh", "exec_container.sh"}

VmScripts == {"start_vm.sh", "vm_functions.sh"}

\* What the runtime makes of a command that it accepts.
Effect(m, cmd) ==
    CASE cmd = "pull" -> [m EXCEPT !.image = TRUE]
      [] cmd = "network_create" -> [m EXCEPT !.network = "own"]
      [] cmd = "run" -> [m EXCEPT !.container = "running"]
      [] cmd = "stop" -> [m EXCEPT !.container = "stopped"]
      [] cmd = "rm" -> [m EXCEPT !.container = "none"]
      [] cmd = "network_rm" -> [m EXCEPT !.network = "none"]
      [] cmd = "disk_create" -> [m EXCEPT !.disk = TRUE]

\* What the state must be for the runtime to accept a command.
Accepts(m, cmd) ==
    CASE cmd = "network_create" -> m.network = "none"
      [] cmd = "run" -> ContainerScripts \subseteq m.files /\ m.image
                          /\ m.container = "none"
      [] cmd = "stop" -> m.container = "running"
      [] cmd = "network_rm" -> m.network # "none"
      [] OTHER -> TRUE

\* run_command(cmd) (sudo FALSE) or sudo_command(cmd, password) (sudo
\* TRUE) on w = [m, log, rc]: the runtime's state, the invocations so far,
\* the last return code.
Invoke(w, cmd, sudo, perm, broken) ==
    LET permitted == perm = "plain" \/ (sudo /\ perm = "sudo")
        ok == permitted /\ cmd # broken /\ Accepts(w.m, cmd)
        rc == IF ok THEN 0 ELSE 1
    IN  [ m |-> IF ok THEN Effect(w.m, cmd) ELSE w.m,
          log |-> Append(w.log, [cmd |-> cmd, sudo |-> sudo, rc |-> rc]),
          rc |-> rc ]

\* "result = run_command(cmd); if result.returncode != 0: if
\* self.sudo_password: result = sudo_command(cmd, ...)".
run_then_sudo(w, cmd, perm, broken) ==
    LET first == Invoke(w, cmd, FALSE, perm, broken) IN
    IF first.rc # 0 /\ w.m.sudo_password
    THEN Invoke(first, cmd, TRUE, perm, broken)
    ELSE first

Start(m) == [m |-> m, log |-> <<>>, rc |-> 0]

Returned(w, result) == [m |-> w.m, log |-> w.log, result |-> result]

\* ContainerManager._check_requirements; tools: docker or podman is found.
container_check_requirements(m, tools, perm) ==
    tools /\ (perm = "plain" \/ (m.sudo_password /\ perm = "sudo"))

\* ContainerManager.setup: [m, log, result].
container_setup(m, tools, perm, broken) ==
    LET pulled == run_then_sudo(Start(m), "pull", perm, broken)
        created == run_then_sudo(pulled, "network_create", perm, broken)
        networked ==
            IF ~pulled.m.network_enabled THEN pulled
            ELSE IF created.rc # 0 /\ m.sudo_password
            THEN [created EXCEPT !.m.network_enabled = FALSE]
            ELSE created
        scripted == [networked EXCEPT !.m.files = @ \cup ContainerScripts]
    IN  IF ~container_check_requirements(m, tools, perm)
        THEN Returned(Start(m), FALSE)
        ELSE IF pulled.rc # 0 THEN Returned(pulled, FALSE)
        ELSE Returned(scripted, TRUE)

\* ContainerManager.is_running
is_running(m) == m.container = "running"

\* ContainerManager.start: [m, log, result].
container_start(m, perm, broken) ==
    LET ran == run_then_sudo(Start(m), "run", perm, broken) IN
    IF is_running(m) THEN Returned(Start(m), TRUE)
    ELSE Returned(ran, ran.rc = 0)

\* ContainerManager.stop on w: [m, log, result].
container_stop(w, perm, broken) ==
    LET stopped == run_then_sudo(w, "stop", perm, broken) IN
    IF ~is_running(w.m) THEN Returned(w, TRUE)
    ELSE Returned(stopped, stopped.rc = 0)

\* ContainerManager.cleanup: [m, log, result].
container_cleanup(m, perm, broken) ==
    LET stopped == IF is_running(m)
                   THEN container_stop(Start(m), perm, broken)
                   ELSE Returned(Start(m), TRUE)
        w == [m |-> stopped.m, log |-> stopped.log, rc |-> 0]
        removed == Invoke(w, "rm", FALSE, perm, broken)
        unnetted == IF removed.m.network_enabled
                    THEN Invoke(removed, "network_rm", FALSE, perm, broken)
                    ELSE removed
    IN  Returned(unnetted, TRUE)

\* VMManager.setup: [m, log, result].  tools: _check_requirements;
\* image_ok: get_vm_image's result; net_ok: _setup_vm_network's, where
\* config.use_network asks for it.
vm_setup(m, tools, image_ok, net_ok, perm, broken) ==
    LET disk == Invoke(Start(m), "disk_create", FALSE, perm, broken)
        scripted == [disk EXCEPT !.m.files = @ \cup VmScripts]
    IN  IF ~tools \/ ~image_ok THEN Returned(Start(m), FALSE)
        ELSE IF disk.rc # 0 THEN Returned(disk, FALSE)
        ELSE Returned(scripted, net_ok)

(***************************************************************************)
(* SpecManagers: the calls on one sandbox's managers.                      *)
(***************************************************************************)
Perms == {"plain", "sudo", "never"}

RuntimeCommands == {"pull", "network_create", "run", "stop", "rm",
                    "network_rm", "disk_create"}

Broken == {"none"} \cup RuntimeCommands

ManagerCall(op, r, tools) ==
    /\ mgr' = r.m
    /\ mcall' = [op |-> op, result |-> r.result, log |-> r.log, tools |-> tools]

\* ContainerManager(env_dir, sudo_password, config) and VMManager(...):
\* new objects over the files and the runtime as they are.
NewManagers(sudo_password, network_enabled) ==
    /\ mgr' = [mgr EXCEPT !.sudo_password = sudo_password,
                          !.network_enabled = network_enabled]
    /\ mcall' = NoManagerCall

ContainerSetup(tools, perm, broken) ==
    ManagerCall("container_setup", container_setup(mgr, tools, perm, broken), tools)

ContainerStart(perm, broken) ==
    ManagerCall("container_start", container_start(mgr, perm, broken), TRUE)

ContainerStop(perm, broken) ==
    ManagerCall("container_stop", container_stop(Start(mgr), perm, broken), TRUE)

ContainerCleanup(perm, broken) ==
    ManagerCall("container_cleanup", container_cleanup(mgr, perm, broken), TRUE)

VmSetup(tools, image_ok, net_ok, perm, broken) ==
    ManagerCall("vm_setup", vm_setup(mgr, tools, image_ok, net_ok, perm, broken),
                tools)

\* Another sandbox's container setup creates the network safespace_net.
OtherSandboxNetwork ==
    /\ mgr.network = "none"
    /\ mgr' = [mgr EXCEPT !.network = "foreign"]
    /\ mcall' = NoManagerCall

NextManagers ==
    \/ \E sudo_password, network_enabled \in BOOLEAN :
           NewManagers(sudo_password, network_enabled) /\ UNCHANGED besidesManagers
    \/ \E tools \in BOOLEAN, perm \in Perms, broken \in Broken :
           ContainerSetup(tools, perm, broken) /\ UNCHANGED besidesManagers
    \/ \E perm \in Perms, broken \in Broken :
           ContainerStart(perm, broken) /\ UNCHANGED besidesManagers
    \/ \E perm \in Perms, broken \in Broken :
           ContainerStop(perm, broken) /\ UNCHANGED besidesManagers
    \/ \E perm \in Perms, broken \in Broken :
           ContainerCleanup(perm, broken) /\ UNCHANGED besidesManagers
    \/ \E tools, image_ok, net_ok \in BOOLEAN, perm \in Perms, broken \in Broken :
           VmSetup(tools, image_ok, net_ok, perm, broken)
             /\ UNCHANGED besidesManagers
    \/ OtherSandboxNetwork /\ UNCHANGED besidesManagers

SpecManagers == InitCache /\ [][NextManagers]_vars

\* C27: after a VMManager.setup or ContainerManager.setup that failed
\* because a prerequisite tool is missing, the manager's launcher scripts
\* exist.
C27_ScriptsDespiteMissingTool ==
    [][ ~mcall'.tools =>
          /\ (mcall'.op = "vm_setup" =>
                ~mcall'.result /\ VmScripts \subseteq mgr'.files)
          /\ (mcall'.op = "container_setup" =>
                ~mcall'.result /\ ContainerScripts \subseteq mgr'.files) ]_vars

\* The invocations the operation made of one command, in order.
InvocationsOf(log, cmd) == SelectSeq(log, LAMBDA e : e.cmd = cmd)

\* C28: in every manager operation, a runtime invocation that returns
\* nonzero is retried exactly once under sudo when a password is
\* configured, and the operation returns failure when the retry fails too;
\* without a password the first failure fails the operation.
C28_RetryOnceUnderSudo ==
    \A cmd \in RuntimeCommands :
        LET tries == InvocationsOf(mcall.log, cmd) IN
        tries # <<>> =>
            /\ ~tries[1].sudo
            /\ (tries[1].rc = 0 => Len(tries) = 1)
            /\ (tries[1].rc # 0 /\ mgr.sudo_password =>
                    /\ Len(tries) = 2
                    /\ tries[2].sudo
                    /\ (tries[2].rc # 0 => ~mcall.result))
            /\ (tries[1].rc # 0 /\ ~mgr.sudo_password =>
                    Len(tries) = 1 /\ ~mcall.result)

(***************************************************************************)
(* The Resource Manager (safespace/resource_manager.py).  Sizes are in     *)
(* KiB, disk use in tenths of a percent, loads in percent.                 *)
(***************************************************************************)
\* list(range(n))
RangeList(n) == [i \in 1..n |-> i - 1]

Min(a, b) == IF a < b THEN a ELSE b

Max(a, b) == IF a > b THEN a ELSE b

\* list[lo:hi]
Slice(list, lo, hi) == SubSeq(list, Min(lo, Len(list)) + 1, Min(hi, Len(list)))

\* optimize_cores, were the efficiency slice to start one id early.
optimize_cores_overlapping(r, core_type) ==
    LET all_cpus == RangeList(r.cpu_count) IN
    IF core_type = "performance"
    THEN Slice(all_cpus, 0, r.performance_cores)
    ELSE Slice(all_cpus, r.performance_cores - 1,
               r.performance_cores + r.efficiency_cores)

\* ResourceManager.optimize_cores
optimize_cores(r, core_type) ==
    LET all_cpus == RangeList(r.cpu_count) IN
    IF core_type = "performance"
    THEN Slice(all_cpus, 0, r.performance_cores)
    ELSE Slice(all_cpus, r.performance_cores,
               r.performance_cores + r.efficiency_cores)

\* update_resource_status, were it to refresh at every call.
update_resource_status_unthrottled(r, current_time, load) ==
    LET new_workload_type == determine_workload_type(load) IN
    [r |-> [r EXCEPT !.last_resource_check = current_time,
                     !.current_load = load,
                     !.current_workload_type = new_workload_type],
     result |-> r.last_resource_check = 0
                  \/ new_workload_type # r.current_workload_type]

\* ResourceManager.update_resource_status at current_time with the host
\* under load: [r, result].
update_resource_status(r, current_time, load) ==
    LET refreshed == [r EXCEPT !.last_resource_check = current_time,
                               !.current_load = load]
        new_workload_type == determine_workload_type(load)
    IN  IF r.last_resource_check = 0
        THEN [r |-> [refreshed EXCEPT !.current_workload_type = new_workload_type],
              result |-> TRUE]
        ELSE IF current_time - r.last_resource_check < ResourceCheckInterval
        THEN [r |-> r, result |-> FALSE]
        ELSE IF new_workload_type # r.current_workload_type
        THEN [r |-> [refreshed EXCEPT !.current_workload_type = new_workload_type],
              result |-> TRUE]
        ELSE [r |-> refreshed, result |-> FALSE]

\* ResourceManager.run_optimized: [r, result]; result is the command line
\* handed to os.system: the nice value (0: no nice), whether taskset is
\* used, and its core list.
run_optimized(r, core_type, platform, load) ==
    LET r1 == update_resource_status(r, r.time, load).r
        workload == r1.current_workload_type
        nice_value ==
            IF workload = "heavy"
            THEN (IF core_type = "efficiency" THEN 15 ELSE 5)
            ELSE IF workload = "medium"
            THEN (IF core_type = "efficiency" THEN 10 ELSE 0)
            ELSE 0
        cores == optimize_cores(r1, core_type)
        fewer == IF workload = "heavy"
                 THEN Slice(cores, 0, Max(1, Len(cores) \div 2))
                 ELSE cores
    IN  IF platform = "darwin"
        THEN [r |-> r1,
              result |-> [nice |-> nice_value, taskset |-> FALSE, cores |-> <<>>]]
        ELSE [r |-> r1,
              result |-> [nice |-> nice_value, taskset |-> TRUE, cores |-> fewer]]

\* int(x * num / den) for x, num, den >= 0.
Scaled(x, num, den) == (x * num) \div den

\* adaptive_cache_limit, were the scale below 70% not capped by memory.
adaptive_cache_limit_uncapped(r, percent, total_memory) ==
    LET base_limit == r.cache_limit_bytes IN
    IF percent > 850
    THEN (IF 1000 - percent >= 15 THEN Scaled(base_limit, 1000 - percent, 150)
          ELSE Scaled(base_limit, 1, 10))
    ELSE IF percent < 700
    THEN (IF percent <= 200 THEN Scaled(base_limit, 2, 1)
          ELSE Scaled(base_limit, 1200 - percent, 500))
    ELSE base_limit

\* ResourceManager.adaptive_cache_limit with the disk percent tenths of a
\* percent full and total_memory of RAM.  max(0.1, (100 - p) / 15) is
\* (1000 - percent) / 150 unless that is below 1/10; min(2.0, 1.0 +
\* (70 - p) / 50) is (1200 - percent) / 500 unless that is above 2.
adaptive_cache_limit(r, percent, total_memory) ==
    LET base_limit == r.cache_limit_bytes
        max_cache == Scaled(total_memory, 2, 10)
    IN  IF percent > 850
        THEN (IF 1000 - percent >= 15 THEN Scaled(base_limit, 1000 - percent, 150)
              ELSE Scaled(base_limit, 1, 10))
        ELSE IF percent < 700
        THEN Min(IF percent <= 200 THEN Scaled(base_limit, 2, 1)
                 ELSE Scaled(base_limit, 1200 - percent, 500),
                 max_cache)
        ELSE base_limit

(***************************************************************************)
(* SpecResources: the calls on one ResourceManager while the host's load   *)
(* and clock move.                                                         *)
(***************************************************************************)
\* What resource_config.json may hold: the cores and the budget in KiB.
ResourceConfigs ==
    { [performance_cores |-> 2, efficiency_cores |-> 2, cache_limit_bytes |-> 102400],
      [performance_cores |-> 1, efficiency_cores |-> 1, cache_limit_bytes |-> 102400],
      [performance_cores |-> 3, efficiency_cores |-> 2, cache_limit_bytes |-> 307200] }

CpuCounts == {2, 4}

Loads == { [cpu |-> 10, memory |-> 10], [cpu |-> 50, memory |-> 10],
           [cpu |-> 10, memory |-> 90] }

CoreTypes == {"performance", "efficiency"}

Platforms == {"linux", "darwin"}

\* psutil.disk_usage(...).percent, in tenths of a percent.
DiskPercents == {100, 200, 500, 699, 700, 750, 850, 851, 900, 950, 990, 1000}

\* psutil.virtual_memory().total, in KiB: 1 GiB and 4 GiB.
Memories == {1048576, 4194304}

\* The clock is moved this many times, 3 seconds each.
MaxResourceTicks == 2

ResourceCall(op, r, result, given) ==
    /\ resmgr' = r
    /\ rcall' = [op |-> op, result |-> result, given |-> given]

NewResourceManager(config, cpu_count, load) ==
    ResourceCall("init", ResourceManager(config, cpu_count, load, resmgr.time),
                 <<>>, <<>>)

OptimizeCores(core_type) ==
    ResourceCall("optimize_cores", resmgr, optimize_cores(resmgr, core_type),
                 [core_type |-> core_type])

UpdateResourceStatus(load) ==
    LET u == update_resource_status(resmgr, resmgr.time, load) IN
    ResourceCall("update_resource_status", u.r, u.result, [load |-> load])

RunOptimized(core_type, platform, load) ==
    LET u == run_optimized(resmgr, core_type, platform, load) IN
    ResourceCall("run_optimized", u.r, u.result,
                 [core_type |-> core_type, platform |-> platform])

AdaptiveCacheLimit(percent, total_memory) ==
    ResourceCall("adaptive_cache_limit", resmgr,
                 adaptive_cache_limit(resmgr, percent, total_memory),
                 [percent |-> percent, total_memory |-> total_memory])

\* Three seconds pass.
ResourceTick ==
    /\ resmgr.time < 100 + 3 * MaxResourceTicks
    /\ resmgr' = [resmgr EXCEPT !.time = @ + 3]
    /\ UNCHANGED rcall

NextResources ==
    \/ \E config \in ResourceConfigs, cpu_count \in CpuCounts, load \in Loads :
           NewResourceManager(config, cpu_count, load) /\ UNCHANGED besidesResources
    \/ \E core_type \in CoreTypes :
           OptimizeCores(core_type) /\ UNCHANGED besidesResources
    \/ \E load \in Loads :
           UpdateResourceStatus(load) /\ UNCHANGED besidesResources
    \/ \E core_type \in CoreTypes, platform \in Platforms, load \in Loads :
           RunOptimized(core_type, platform, load) /\ UNCHANGED besidesResources
    \/ \E percent \in DiskPercents, total_memory \in Memories :
           AdaptiveCacheLimit(percent, total_memory) /\ UNCHANGED besidesResources
    \/ ResourceTick /\ UNCHANGED besidesResources

SpecResources == InitCache /\ [][NextResources]_vars

\* The ids lo, lo + 1, ... below hi that a host of n cpus has, in order.
IdsFrom(lo, hi, n) ==
    [i \in 1..Max(0, Min(hi, n) - Min(lo, n)) |-> Min(lo, n) + i - 1]

\* The first half of a list.
Halved(list) == SubSeq(list, 1, Len(list) \div 2)

\* C29: optimize_cores(PERFORMANCE) returns the first N logical cpu ids,
\* optimize_cores(EFFICIENCY) the next M, the two lists are disjoint, and
\* when the workload class is HEAVY the list optimize_cores returns is
\* halved.
C29_CoresHalvedWhenHeavy ==
    rcall.op = "optimize_cores" =>
        LET N == resmgr.performance_cores
            M == resmgr.efficiency_cores
            full == IF rcall.given.core_type = "performance"
                    THEN [i \in 1..N |-> i - 1]
                    ELSE [i \in 1..M |-> N + i - 1]
        IN  /\ rcall.result = IF resmgr.current_workload_type = "heavy"
                              THEN Halved(full) ELSE full
            /\ Range(optimize_cores(resmgr, "performance"))
                  \cap Range(optimize_cores(resmgr, "efficiency")) = {}

\* C29, amended: optimize_cores(PERFORMANCE) returns the first N logical
\* cpu ids the host has and optimize_cores(EFFICIENCY) the next M it has,
\* whatever the workload class, the two lists being disjoint; it is
\* run_optimized that, on Linux under HEAVY, pins the command to the first
\* max(1, len / 2) ids of that list, and to the whole list otherwise.
C29_CoresByType ==
    LET N == resmgr.performance_cores
        M == resmgr.efficiency_cores
        n == resmgr.cpu_count
        listed == IF rcall.given.core_type = "performance"
                  THEN IdsFrom(0, N, n) ELSE IdsFrom(N, N + M, n)
    IN  /\ rcall.op = "optimize_cores" =>
              /\ rcall.result = listed
              /\ Range(optimize_cores(resmgr, "performance"))
                    \cap Range(optimize_cores(resmgr, "efficiency")) = {}
        /\ rcall.op = "run_optimized" /\ rcall.given.platform = "linux" =>
              rcall.result.cores =
                  IF resmgr.current_workload_type = "heavy"
                  THEN SubSeq(listed, 1, Min(Len(listed), Max(1, Len(listed) \div 2)))
                  ELSE listed

\* A command pinned to one of the two performance cores under heavy load.
C29_Witness ==
    /\ rcall.op = "run_optimized"
    /\ rcall.given = [core_type |-> "performance", platform |-> "linux"]
    /\ resmgr.current_workload_type = "heavy"
    /\ resmgr.performance_cores = 2
    /\ rcall.result.cores = <<0>>

\* b scaled by num / den and truncated is x.
IsScaled(x, b, num, den) == x * den <= b * num /\ b * num < (x + 1) * den

\* C30: adaptive_cache_limit for a budget b and a disk p percent full:
\* p > 85 gives b scaled by max(0.1, (100 - p) / 15), a value in
\* [33 MiB, 37 MiB] for p = 90 and b = 100 MiB; 70 <= p <= 85 gives b;
\* p < 70 gives at least b, at most 2 b and at most 20% of total RAM.
C30_AdaptiveLimitAsStated ==
    rcall.op = "adaptive_cache_limit" =>
        LET b == resmgr.cache_limit_bytes
            p == rcall.given.percent
            x == rcall.result
        IN  /\ p > 850 =>
                 /\ IF 1000 - p >= 15 THEN IsScaled(x, b, 1000 - p, 150)
                    ELSE IsScaled(x, b, 1, 10)
                 /\ (p = 900 /\ b = 102400 => 33 * 1024 <= x /\ x <= 37 * 1024)
            /\ (700 <= p /\ p <= 850 => x = b)
            /\ p < 700 =>
                 /\ b <= x
                 /\ x <= 2 * b
                 /\ 10 * x <= 2 * rcall.given.total_memory

\* C30, amended: p > 85 gives b scaled by max(0.1, (100 - p) / 15), a value
\* in [66 MiB, 67 MiB] for p = 90 and b = 100 MiB; 70 <= p <= 85 gives b;
\* p < 70 gives at most 2 b and at most 20% of total RAM, and at least b
\* when b is itself at most 20% of total RAM.
C30_AdaptiveLimit ==
    rcall.op = "adaptive_cache_limit" =>
        LET b == resmgr.cache_limit_bytes
            p == rcall.given.percent
            x == rcall.result
        IN  /\ p > 850 =>
                 /\ IF 1000 - p >= 15 THEN IsScaled(x, b, 1000 - p, 150)
                    ELSE IsScaled(x, b, 1, 10)
                 /\ (p = 900 /\ b = 102400 => 66 * 1024 <= x /\ x <= 67 * 1024)
            /\ (700 <= p /\ p <= 850 => x = b)
            /\ p < 700 =>
                 /\ x <= 2 * b
                 /\ 10 * x <= 2 * rcall.given.total_memory
                 /\ (10 * b <= 2 * rcall.given.total_memory => b <= x)

\* A budget above a fifth of the memory, cut to that fifth on an empty disk.
C30_Witness ==
    /\ rcall.op = "adaptive_cache_limit"
    /\ rcall.given.percent < 700
    /\ 10 * resmgr.cache_limit_bytes > 2 * rcall.given.total_memory
    /\ rcall.result < resmgr.cache_limit_bytes
    /\ 10 * rcall.result <= 2 * rcall.given.total_memory

\* C32: the first update_resource_status() after construction refreshes the
\* load and returns true; a call less than resource_check_interval after
\* the last refresh returns false and leaves current_load and the workload
\* class as they were, whatever the host's load; a call after the interval
\* refreshes the load and returns true exactly when the workload class
\* changed.
C32_TelemetryThrottled ==
    [][ rcall'.op = "update_resource_status" /\ resmgr'.time = resmgr.time =>
          LET load == rcall'.given.load IN
          IF resmgr.last_resource_check = 0
          THEN /\ rcall'.result
               /\ resmgr'.current_load = load
          ELSE IF resmgr.time - resmgr.last_resource_check < ResourceCheckInterval
          THEN /\ ~rcall'.result
               /\ resmgr'.current_load = resmgr.current_load
               /\ resmgr'.current_workload_type = resmgr.current_workload_type
          ELSE /\ resmgr'.current_load = load
               /\ rcall'.result
                    <=> resmgr'.current_workload_type # resmgr.current_workload_type
        ]_vars

\* A call three seconds after a refresh, the host's load having changed.
C32_Witness ==
    /\ rcall.op = "update_resource_status"
    /\ ~rcall.result
    /\ resmgr.last_resource_check # 0
    /\ resmgr.time - resmgr.last_resource_check = 3
    /\ rcall.given.load # resmgr.current_load
    /\ determine_workload_type(rcall.given.load) # resmgr.current_workload_type

\* C35: setup_network_isolation returns true only if network_enabled is set
\* when it returns; after an attempt in which NetworkIsolation.setup failed, a
\* later call does not return true while network_enabled is still false.
C35_TrueOnlyWhenEnabled ==
    tcall.op = "setup_network_isolation" /\ tcall.result => env.network_enabled

\* C36: NetworkIsolation never issues "tc qdisc add dev veth1 root" while a
\* root qdisc it installed earlier is still installed: the add of netem that
\* follows the reset inside setup_network_conditions, and inside
\* update_network_conditions of active conditions, finds no root qdisc.
C36_AddFindsNoRootQdisc ==
    [][ \/ ncall'.op = "setup_network_conditions"
        \/ ncall'.op = "update_network_conditions"
             /\ netiso.current_conditions_active
        => reset_network_conditions(netiso, host, ncall'.failing)
             .host.qdisc.kind = "none"
      ]_vars

\* C37: update_network_conditions called while no conditions are active
\* returns failure and leaves the conditions record (latency, jitter, packet
\* loss, corruption, reordering, bandwidth) as it was before the call.
C37_InactiveUpdateChangesNothing ==
    [][ ncall'.op = "update_network_conditions"
        /\ ~netiso.current_conditions_active
        => /\ ~ncall'.result
           /\ get_current_network_conditions(netiso')
                = get_current_network_conditions(netiso)
      ]_vars

\* C40: a sandbox's container cleanup removes the network safespace_net only
\* if that sandbox's setup created it: where another sandbox owns the
\* network, a setup leaves network_enabled false and a cleanup issues no
\* "network rm", with or without a sudo password.
C40_ForeignNetworkKept ==
    [][ mgr.network = "foreign" =>
          /\ (mcall'.op = "container_setup" /\ mcall'.result
                => ~mgr'.network_enabled)
          /\ (mcall'.op = "container_cleanup"
                => /\ InvocationsOf(mcall'.log, "network_rm") = <<>>
                   /\ mgr'.network = "foreign")
      ]_vars

\* C39: after delete_saved_state() succeeded, the State Store holds no record
\* of that sandbox id until save_state() is called: a cleanup() of the same
\* sandbox object that follows, with any keep_dir, does not re-create it.
C39_DeletedStaysDeleted ==
    [][ call.op = "delete_saved_state" /\ call.result /\ call'.op = "cleanup"
        => RowsWithId(db', env.env_id) = {}
      ]_vars

\* C38: put of a file whose content blob is in the content directory but
\* whose key is absent from the index succeeds, returns the key and keeps
\* the blob; put never deletes the content file of its key that existed
\* before the call.
C38_OrphanBlobKept ==
    [][ cret'.op = "put" /\ cret'.key \in DOMAIN content =>
          /\ cret'.key \in DOMAIN content'
          /\ ~InIndex(artifact_index, cret'.key)
               => ~cret'.raised /\ cret'.result = cret'.key
      ]_vars

(***************************************************************************)
(* SpecEviction: puts on one cache with a byte budget, a file larger than   *)
(* the budget among those offered; a put of a key that is in the index is  *)
(* an access to it.  time.time() may give two calls the same reading (tick *)
(* 0).                                                                     *)
(***************************************************************************)
\* An entry is put again while its access count is below this.
MaxAccessCount == 1

\* No put starts once the clock has reached this.
MaxEvictionClock == 2

\* cache.put(file, TEST_ARTIFACT), the clock moving by tick after it.
CachePutAt(file, tick) ==
    /\ Opened
    /\ ctime < MaxEvictionClock
    /\ LET file_hash == compute_hash(Data(file))
           r == put(TheCache, file, "TEST_ARTIFACT", "none", ctime)
       IN  /\ InIndex(artifact_index, file_hash) =>
                 artifact_index[IndexOf(artifact_index, file_hash)].access_count
                   < MaxAccessCount
           /\ SetCache(r.c)
           /\ cret' = [NoCacheCall EXCEPT !.op = "put", !.key = file_hash,
                                          !.result = r.result, !.fresh = r.fresh]
           /\ evicted' = SelectSeq(artifact_index,
                                   LAMBDA e : ~InIndex(r.c.index, e.hash))
    /\ ctime' = ctime + tick

\* The files put: of 1, 2 and 1 bytes, and the oversized one.
EvictionFiles == {"a.txt", "b.txt", "c.txt", Oversized}

NextEviction ==
    \E file \in EvictionFiles, tick \in {0, 1} :
        CachePutAt(file, tick) /\ UNCHANGED besidesEviction

SpecEviction == InitCache /\ [][NextEviction]_vars

\* C33: on a cache with budget B > 0, after every put the sum of the sizes
\* of all indexed artifacts is at most B, for every file size, a file
\* larger than B included.
C33_WithinBudget ==
    cret.op = "put" /\ ~cret.raised
      => get_cache_size(artifact_index) <= MaxSizeBytes

\* e is of the index before the step and not of the index after it.
Gone(e) == ~InIndex(artifact_index', e.hash)

\* d comes before e in ascending last-access order, the higher access
\* count first among equal times.
Before(d, e) ==
    \/ d.access_time < e.access_time
    \/ d.access_time = e.access_time /\ d.access_count > e.access_count

ContentAddressableCacheMethods ==
    {"_compute_hash", "_compute_hash_from_url", "_load_index", "_save_index",
     "_update_access_time", "_get_cache_size", "_cleanup", "put", "get",
     "get_with_name", "contains", "get_metadata", "list_artifacts", "remove",
     "clear", "verify_integrity"}

\* The methods class TestArtifactCache defines.
TestArtifactCacheMethods ==
    {"cache_artifact", "cache_directory", "get_artifact", "list_artifacts"}

\* sum(f.stat().st_size for f in names)
RECURSIVE SizeOfFiles(_, _)
SizeOfFiles(files, names) ==
    IF names = {} THEN 0
    ELSE LET f == CHOOSE f \in names : TRUE IN
         files[f].size + SizeOfFiles(files, names \ {f})

\* f.name.startswith('.'), of the names in use.
Hidden(name) == name \in {".partial"}

\* The loop of _traditional_cache_cleanup: unlink the oldest until the
\* total is within the limit.
RECURSIVE RemoveOldest(_, _, _, _)
RemoveOldest(files, candidates, total_size, limit) ==
    IF candidates = {} \/ total_size <= limit THEN files
    ELSE LET f == CHOOSE f \in candidates :
                      \A g \in candidates : files[f].mtime <= files[g].mtime
         IN  RemoveOldest([g \in DOMAIN files \ {f} |-> files[g]],
                          candidates \ {f}, total_size - files[f].size, limit)

\* _traditional_cache_cleanup: the files left.
traditional_cache_cleanup(r, files) ==
    LET cache_files == {f \in DOMAIN files : ~Hidden(f)} IN
    RemoveOldest(files, cache_files, SizeOfFiles(files, cache_files),
                 r.cache_limit_bytes)

\* cleanup_cache: [r, files, raised].  get_vm_image_cache and
\* get_test_artifact_cache make directories only; the caches they open
\* under vm/ and test/ hold nothing of what lies in the directory.
cleanup_cache(r, files, current_time, load) ==
    LET r1 == update_resource_status(r, current_time, load).r
        cache_size == SizeOfFiles(files, DOMAIN files)
    IN  IF cache_size <= r1.cache_limit_bytes
        THEN [r |-> r1, files |-> files, raised |-> None]
        ELSE IF "cleanup" \notin ContentAddressableCacheMethods
        THEN [r |-> r1, files |-> files, raised |-> "AttributeError"]
        ELSE IF "cleanup_test_artifacts" \notin TestArtifactCacheMethods
        THEN [r |-> r1, files |-> files, raised |-> "AttributeError"]
        ELSE [r |-> r1, files |-> traditional_cache_cleanup(r1, files),
              raised |-> None]

(***************************************************************************)
(* SpecCleanup: files are written under the cache directory of one         *)
(* ResourceManager and cleanup_cache is called.                            *)
(***************************************************************************)
\* The configuration of the cache-cleanup test: a budget of 5 KiB.
CleanupConfigs ==
    { [performance_cores |-> 1, efficiency_cores |-> 1, cache_limit_bytes |-> 5] }

\* The files written, 3 KiB each.
CacheFileNames == {"file1.cache", "file2.cache", ".partial"}

\* A file is written under the cache directory; the clock moves on.
WriteCacheFile(name) ==
    /\ resmgr.time < 100 + 3 * MaxResourceTicks
    /\ cache_dir' = [f \in DOMAIN cache_dir \cup {name} |->
                       IF f = name THEN [size |-> 3, mtime |-> resmgr.time]
                       ELSE cache_dir[f]]
    /\ resmgr' = [resmgr EXCEPT !.time = @ + 3]
    /\ rcall' = NoResourceCall

\* resource_manager.cleanup_cache()
CleanupCache(load) ==
    LET u == cleanup_cache(resmgr, cache_dir, resmgr.time, load) IN
    /\ ResourceCall("cleanup_cache", u.r,
                    [raised |-> u.raised,
                     unlinked |-> DOMAIN cache_dir \ DOMAIN u.files],
                    [cache_size |-> SizeOfFiles(cache_dir, DOMAIN cache_dir)])
    /\ cache_dir' = u.files

NextCleanup ==
    \/ \E config \in CleanupConfigs \cup ResourceConfigs, load \in Loads :
           /\ NewResourceManager(config, 4, load)
           /\ UNCHANGED <<besidesCleanup, cache_dir>>
    \/ \E name \in CacheFileNames :
           WriteCacheFile(name) /\ UNCHANGED besidesCleanup
    \/ \E load \in Loads : CleanupCache(load) /\ UNCHANGED besidesCleanup

SpecCleanup == InitCache /\ [][NextCleanup]_vars

\* C31: when the total size of the files under the cache directory exceeds
\* cache_limit_bytes, cleanup_cache() completes without raising and deletes
\* at least one cached file.
C31_CleanupDeletes ==
    rcall.op = "cleanup_cache" /\ rcall.given.cache_size > resmgr.cache_limit_bytes
      => rcall.result.raised = None /\ rcall.result.unlinked # {}

====
